---- MODULE Spec2Model ----
(***************************************************************************)
(* A model of the action-translation pipeline of oagi-python: the          *)
(* coordinate scaler, the capslock state machine, the native action        *)
(* converters, the local action handlers and the output parser.            *)
(*                                                                         *)
(* Conventions.  A Python float is a record [k, v]: k = "fin" with the     *)
(* value v, or k in {"nan", "inf", "ninf"}.  A Python str that the code    *)
(* only splits, strips, parses or compares is a token (a TLA+ string) and  *)
(* each such conversion is a table over the tokens.  An Action argument is *)
(* the sequence of its comma-separated fields; <<>> is the empty string.   *)
(***************************************************************************)
EXTENDS Integers, Sequences, FiniteSets, TLC

VARIABLES
    scaler,     \* a CoordinateScaler instance
    capsMgr,    \* a stand-alone CapsLockManager instance
    toggles,    \* toggle() calls on capsMgr since construction / last reset()
    pyConv,     \* a PyautoguiActionConvertor instance
    oagiConv,   \* an OagiActionConverter instance (BaseActionConverter)
    pyHandler,  \* a PyautoguiActionHandler instance
    ydHandler,  \* a YdotoolActionHandler instance
    res,        \* the last call made and what it returned or raised
    claudeConv, \* a ClaudeActionConverter instance
    qwenConv,   \* a Qwen3ActionConverter instance
    agent       \* a DefaultAgent instance and the execute call in progress

vars == <<scaler, capsMgr, toggles, pyConv, oagiConv, pyHandler, ydHandler, res,
         claudeConv, qwenConv, agent>>

None == "None"

(***************************************************************************)
(* Bounds                                                                  *)
(***************************************************************************)
MaxBatch == 2       \* longest action batch handed to a converter / handler
MaxCount == 3       \* largest repeat count of an Action
MaxToggles == 6     \* toggle() calls counted before a reset() is required
MaxFragments == 2   \* longest list of tool-call payloads / tagged calls

(***************************************************************************)
(* Program constants                                                       *)
(***************************************************************************)
MODEL_COORD_WIDTH == 1000
MODEL_COORD_HEIGHT == 1000
OAGI_COORD_SIZE == 1000
DEFAULT_SANDBOX_WIDTH == 1920
DEFAULT_SANDBOX_HEIGHT == 1080
DEFAULT_CONVERTER_SCROLL_AMOUNT == 2
XGA_WIDTH == 1024
XGA_HEIGHT == 768
QWEN3_COORD_SIZE == 999
DEFAULT_MAX_STEPS == 30

(***************************************************************************)
(* Floats                                                                  *)
(***************************************************************************)
Fin(n) == [k |-> "fin", v |-> n]
NaN == [k |-> "nan", v |-> 0]
PosInf == [k |-> "inf", v |-> 0]
NegInf == [k |-> "ninf", v |-> 0]

\* x < b and x > b for a float x and an int b (every comparison with NaN is false)
FloatLt(x, b) == (x.k = "fin" /\ x.v < b) \/ x.k = "ninf"
FloatGt(x, b) == (x.k = "fin" /\ x.v > b) \/ x.k = "inf"

\* Python round() of the quotient n / d, d > 0: round half to even
RoundHalfEven(n, d) ==
    LET q == n \div d
        r == n % d
    IN  IF 2 * r < d THEN q
        ELSE IF 2 * r > d THEN q + 1
        ELSE IF q % 2 = 0 THEN q ELSE q + 1

Max(a, b) == IF a >= b THEN a ELSE b
Min(a, b) == IF a <= b THEN a ELSE b

(***************************************************************************)
(* CoordinateScaler (handler/utils.py)                                     *)
(***************************************************************************)
\* A scale factor target / source is kept as the pair <<target, source>>.
NewScaler(sw, sh, tw, th, ox, oy) ==
    [source_width |-> sw, source_height |-> sh,
     target_width |-> tw, target_height |-> th,
     origin_x |-> ox, origin_y |-> oy,
     scale_x |-> <<tw, sw>>, scale_y |-> <<th, sh>>]

set_origin(s, ox, oy) == [s EXCEPT !.origin_x = ox, !.origin_y = oy]

set_target_size_stale(s, w, h) ==
    [s EXCEPT !.target_width = w, !.target_height = h]

set_target_size(s, w, h) ==
    [s EXCEPT !.target_width = w, !.target_height = h,
              !.scale_x = <<w, s.source_width>>,
              !.scale_y = <<h, s.source_height>>]

\* round(v * scale): the exception round() raises for a non-finite product
RoundRaises(v) ==
    CASE v.k = "nan" -> "ValueError"
      [] v.k \in {"inf", "ninf"} -> "OverflowError"
      [] OTHER -> "none"

ScaledAxis(v, sc) == RoundHalfEven(v.v * sc[1], sc[2])

ClampAxis(v, extent) == Max(0, Min(v, extent - 1))

FailsafeAxis(v, extent) ==
    IF v < 1 THEN 1
    ELSE IF v > extent - 2 THEN extent - 2
    ELSE v

Raised(kind) == [raised |-> kind, x |-> 0, y |-> 0]
Returned(x, y) == [raised |-> "none", x |-> x, y |-> y]

scale_strict_exclusive(s, x, y, clamp, prevent_failsafe, strict) ==
    IF strict /\ (FloatLt(x, 0) \/ ~FloatLt(x, s.source_width)) THEN Raised("range")
    ELSE IF strict /\ (FloatLt(y, 0) \/ ~FloatLt(y, s.source_height)) THEN Raised("range")
    ELSE IF RoundRaises(x) # "none" THEN Raised(RoundRaises(x))
    ELSE IF RoundRaises(y) # "none" THEN Raised(RoundRaises(y))
    ELSE
      LET sx0 == ScaledAxis(x, s.scale_x)
          sy0 == ScaledAxis(y, s.scale_y)
          sx1 == IF clamp THEN ClampAxis(sx0, s.target_width) ELSE sx0
          sy1 == IF clamp THEN ClampAxis(sy0, s.target_height) ELSE sy0
          sx2 == IF prevent_failsafe THEN FailsafeAxis(sx1, s.target_width) ELSE sx1
          sy2 == IF prevent_failsafe THEN FailsafeAxis(sy1, s.target_height) ELSE sy1
      IN  Returned(sx2 + s.origin_x, sy2 + s.origin_y)

scale(s, x, y, clamp, prevent_failsafe, strict) ==
    IF strict /\ (FloatLt(x, 0) \/ FloatGt(x, s.source_width)) THEN Raised("range")
    ELSE IF strict /\ (FloatLt(y, 0) \/ FloatGt(y, s.source_height)) THEN Raised("range")
    ELSE IF RoundRaises(x) # "none" THEN Raised(RoundRaises(x))
    ELSE IF RoundRaises(y) # "none" THEN Raised(RoundRaises(y))
    ELSE
      LET sx0 == ScaledAxis(x, s.scale_x)
          sy0 == ScaledAxis(y, s.scale_y)
          sx1 == IF clamp THEN ClampAxis(sx0, s.target_width) ELSE sx0
          sy1 == IF clamp THEN ClampAxis(sy0, s.target_height) ELSE sy0
          sx2 == IF prevent_failsafe THEN FailsafeAxis(sx1, s.target_width) ELSE sx1
          sy2 == IF prevent_failsafe THEN FailsafeAxis(sy1, s.target_height) ELSE sy1
      IN  Returned(sx2 + s.origin_x, sy2 + s.origin_y)

(***************************************************************************)
(* CapsLockManager (handler/capslock_manager.py)                           *)
(***************************************************************************)
\* str.upper() on the texts of the model
Upper(t) ==
    CASE t = "abc" -> "ABC"
      [] t = "Abc" -> "ABC"
      [] t = "Hello World" -> "HELLO WORLD"
      [] t = "test123!" -> "TEST123!"
      [] t = "a b" -> "A B"
      [] OTHER -> t

Texts == {"", "abc", "Abc", "ABC", "Hello World", "HELLO WORLD", "test123!",
          "123!@#", "a b"}

\* CapsLockManager(mode): caps_enabled starts False
NewCapsLockManager(mode) == [mode |-> mode, caps_enabled |-> FALSE]

toggle_any_mode(m) == [m EXCEPT !.caps_enabled = ~m.caps_enabled]

toggle(m) ==
    IF m.mode = "session" THEN [m EXCEPT !.caps_enabled = ~m.caps_enabled] ELSE m

reset(m) == [m EXCEPT !.caps_enabled = FALSE]

transform_text(m, t) ==
    IF m.mode = "session" /\ m.caps_enabled THEN Upper(t) ELSE t

should_use_system_capslock(m) == m.mode = "system"

(***************************************************************************)
(* Strings of the model and the conversions the code applies to them       *)
(***************************************************************************)
FloatErr == [k |-> "err", v |-> 0]

\* float(s.strip()): the parsed float, or FloatErr where float() raises ValueError
FloatOf(tok) ==
    CASE tok = "0" -> Fin(0)
      [] tok = "2" -> Fin(2)
      [] tok = "100" -> Fin(100)
      [] tok = "300" -> Fin(300)
      [] tok = "500" -> Fin(500)
      [] tok = "1000" -> Fin(1000)
      [] tok = "1050" -> Fin(1050)
      [] tok = "-10" -> Fin(-10)
      [] tok = "nan" -> NaN
      [] tok = "inf" -> PosInf
      [] OTHER -> FloatErr

\* str(float(s)) for the wait durations of the model
FloatRepr(tok) ==
    CASE FloatOf(tok).k = "fin" -> ToString(FloatOf(tok).v) \o ".0"
      [] FloatOf(tok).k = "nan" -> "nan"
      [] FloatOf(tok).k = "inf" -> "inf"
      [] OTHER -> tok

\* s.strip().lower()
StripLower(tok) ==
    CASE tok = "Ctrl" -> "ctrl"
      [] tok = " c" -> "c"
      [] tok = "CapsLock" -> "capslock"
      [] tok = "UP" -> "up"
      [] tok = "Super" -> "super"
      [] tok = " meta" -> "meta"
      [] tok = "Page_Down" -> "page_down"
      [] OTHER -> tok

\* s.strip("\"'")
StripQuotes(tok) ==
    CASE tok = "'Abc'" -> "Abc"
      [] OTHER -> tok

\* The text of an argument that is not split (type)
ArgText(arg) == IF arg = <<>> THEN "" ELSE arg[1]

\* The slice of PYAUTOGUI_VALID_KEYS the key tokens of the model meet
PYAUTOGUI_VALID_KEYS ==
    {"a", "c", "ctrl", "alt", "tab", "shift", "enter", "return", "capslock",
     "pageup", "pagedown", "pgup", "pgdn", "win", "command", "esc"}

Cmd(fn, nums, strs) == [fn |-> fn, nums |-> nums, strs |-> strs]

Ok(cmds, m) == [err |-> "none", cmds |-> cmds, caps |-> m]
Err(e, m) == [err |-> e, cmds |-> <<>>, caps |-> m]


\* The command lists the converters build from parsed arguments
ClickCmds(fn, c, m) ==
    IF c.raised # "none" THEN Err(c.raised, m)
    ELSE Ok(<<Cmd(fn, <<c.x, c.y>>, <<>>)>>, m)

DragCmds(s, e, duration, m) ==
    IF s.raised # "none" THEN Err(s.raised, m)
    ELSE IF e.raised # "none" THEN Err(e.raised, m)
    ELSE Ok(<<Cmd("pyautogui.moveTo", <<s.x, s.y>>, <<>>),
              Cmd("pyautogui.dragTo", <<e.x, e.y>>, <<duration>>)>>, m)

ScrollCmds(c, direction, amount, m) ==
    IF c.raised # "none" THEN Err(c.raised, m)
    ELSE IF direction \notin {"up", "down"} THEN Err("direction", m)
    ELSE Ok(<<Cmd("pyautogui.moveTo", <<c.x, c.y>>, <<>>),
              Cmd("pyautogui.scroll",
                  <<IF direction = "up" THEN amount ELSE -amount>>, <<>>)>>, m)

\* config.drag_duration / wait_duration, as the commands print them
drag_duration == "0.5"
wait_duration == "1.0"

(***************************************************************************)
(* Count expansion, shared by both native converters (_convert_action)     *)
(***************************************************************************)
\* Action.count is None or an integer >= 1; None is written NoCount
NoCount == 0

\* count = action.count or 1
CountOf(action) == IF action.count = NoCount THEN 1 ELSE action.count

ExpandCount_last_of_each_repeat(single, count) ==
    LET m == Len(single)
    IN  [p \in 1..(count * m) |->
            [cmd |-> single[((p - 1) % m) + 1],
             is_last |-> ((p - 1) % m = m - 1)]]

ExpandCount_whole_last_repeat(single, count) ==
    LET m == Len(single)
    IN  [p \in 1..(count * m) |->
            [cmd |-> single[((p - 1) % m) + 1],
             is_last |-> ((p - 1) \div m = count - 1)]]

\* for i in range(count): for j, action_str in enumerate(single_actions): ...
ExpandCount(single, count) ==
    LET m == Len(single)
    IN  [p \in 1..(count * m) |->
            [cmd |-> single[((p - 1) % m) + 1],
             is_last |-> ((p - 1) \div m = count - 1) /\ ((p - 1) % m = m - 1)]]

(***************************************************************************)
(* PyautoguiActionConvertor (converters/pyautogui_action_converter.py)     *)
(***************************************************************************)
PyDenormalizeCoords(x, y) ==
    IF FloatLt(x, 0) \/ FloatGt(x, MODEL_COORD_WIDTH) THEN Raised("range")
    ELSE IF FloatLt(y, 0) \/ FloatGt(y, MODEL_COORD_HEIGHT) THEN Raised("range")
    ELSE IF RoundRaises(x) # "none" THEN Raised(RoundRaises(x))
    ELSE IF RoundRaises(y) # "none" THEN Raised(RoundRaises(y))
    ELSE Returned(
           ClampAxis(RoundHalfEven(x.v * DEFAULT_SANDBOX_WIDTH, MODEL_COORD_WIDTH),
                     DEFAULT_SANDBOX_WIDTH),
           ClampAxis(RoundHalfEven(y.v * DEFAULT_SANDBOX_HEIGHT, MODEL_COORD_HEIGHT),
                     DEFAULT_SANDBOX_HEIGHT))

PyParseClickCoords(arg) ==
    IF Len(arg) < 2 THEN Raised("format")
    ELSE IF FloatOf(arg[1]) = FloatErr \/ FloatOf(arg[2]) = FloatErr THEN Raised("format")
    ELSE PyDenormalizeCoords(FloatOf(arg[1]), FloatOf(arg[2]))

PyNormalizeKey(k) ==
    LET key == StripLower(k)
    IN  CASE key \in {"page_up", "pageup", "pgup"} -> "pageup"
          [] key \in {"page_down", "pagedown", "pgdn"} -> "pagedown"
          [] key \in {"print_screen", "printscreen", "prtsc", "prtscr"} -> "printscreen"
          [] key \in {"num_lock", "numlock"} -> "numlock"
          [] key \in {"scroll_lock", "scrolllock"} -> "scrolllock"
          [] key \in {"caps_lock", "caps", "capslock"} -> "capslock"
          [] key \in {"windows", "super", "meta"} -> "win"
          [] key = "cmd" -> "command"
          [] key = "control" -> "ctrl"
          [] key = "mute" -> "volumemute"
          [] key = "play" -> "playpause"
          [] OTHER -> key

IsKey(k) == k # ""
IsInvalidKey(k) == k # "" /\ k \notin PYAUTOGUI_VALID_KEYS

\* _parse_hotkey: the normalized keys, or <<"!invalid">> where _validate_keys raises
PyParseHotkey(arg) ==
    LET keys == [i \in 1..Len(arg) |-> PyNormalizeKey(arg[i])]
    IN  IF SelectSeq(keys, IsInvalidKey) # <<>> THEN <<"!invalid">> ELSE keys

\* make_type_command
SmartPasteTexts == {"long text"}
make_type_command(text) ==
    IF text \in SmartPasteTexts THEN Cmd("_smart_paste", <<>>, <<text>>)
    ELSE Cmd("PynputController().type", <<>>, <<text>>)

WaitSeconds(arg) ==
    IF arg = <<>> THEN wait_duration
    ELSE IF Len(arg) = 1 /\ FloatOf(arg[1]) # FloatErr THEN FloatRepr(arg[1])
    ELSE "!err"

\* The hotkey branch: a lone capslock toggles the manager or presses the key
HotkeyOf(valid_keys, m) ==
    IF valid_keys = <<>> THEN Err("format", m)
    ELSE IF valid_keys = <<"capslock">> THEN
        IF should_use_system_capslock(m)
        THEN Ok(<<Cmd("pyautogui.hotkey", <<>>, <<"capslock">>)>>, m)
        ELSE Ok(<<>>, toggle(m))
    ELSE Ok(<<Cmd("pyautogui.hotkey", <<>>, valid_keys)>>, m)

HotkeyCmds(keys, m) ==
    IF keys = <<"!invalid">> THEN Err("invalid key", m)
    ELSE HotkeyOf(SelectSeq(keys, IsKey), m)

TypeCmds(text, m) ==
    IF text = "" THEN Err("empty text", m) ELSE Ok(<<make_type_command(text)>>, m)

WaitCmds(seconds, m) ==
    IF seconds = "!err" THEN Err("format", m) ELSE Ok(<<Cmd("WAIT", <<>>, <<seconds>>)>>, m)

PyClick(fn, arg, m) == ClickCmds(fn, PyParseClickCoords(arg), m)

PyDrag(arg, m) ==
    IF Len(arg) # 4 THEN Err("format", m)
    ELSE IF FloatErr \in {FloatOf(arg[i]) : i \in 1..4} THEN Err("format", m)
    ELSE DragCmds(PyParseClickCoords(<<arg[1], arg[2]>>),
                  PyParseClickCoords(<<arg[3], arg[4]>>), drag_duration, m)

PyScroll(arg, m) ==
    IF Len(arg) # 3 THEN Err("format", m)
    ELSE IF FloatOf(arg[1]) = FloatErr \/ FloatOf(arg[2]) = FloatErr THEN Err("format", m)
    ELSE ScrollCmds(PyDenormalizeCoords(FloatOf(arg[1]), FloatOf(arg[2])),
                    StripLower(arg[3]), DEFAULT_CONVERTER_SCROLL_AMOUNT, m)

PyConvertSingleAction(m, action) ==
    CASE action.type = "click" -> PyClick("pyautogui.click", action.argument, m)
      [] action.type = "left_double" -> PyClick("pyautogui.doubleClick", action.argument, m)
      [] action.type = "left_triple" -> PyClick("pyautogui.tripleClick", action.argument, m)
      [] action.type = "right_single" -> PyClick("pyautogui.rightClick", action.argument, m)
      [] action.type = "drag" -> PyDrag(action.argument, m)
      [] action.type = "hotkey" -> HotkeyCmds(PyParseHotkey(action.argument), m)
      [] action.type = "type" ->
           TypeCmds(transform_text(m, StripQuotes(ArgText(action.argument))), m)
      [] action.type = "scroll" -> PyScroll(action.argument, m)
      [] action.type = "wait" -> WaitCmds(WaitSeconds(action.argument), m)
      [] action.type = "finish" -> Ok(<<Cmd("DONE", <<>>, <<>>)>>, m)
      [] action.type = "fail" -> Ok(<<Cmd("FAIL", <<>>, <<>>)>>, m)
      [] action.type = "call_user" -> Ok(<<>>, m)
      [] OTHER -> Err("unknown action type", m)

\* _convert_action: one conversion, repeated count times
Repeated(single, count) ==
    [err |-> single.err, caps |-> single.caps, out |-> ExpandCount(single.cmds, count)]

PyConvertAction(m, action) == Repeated(PyConvertSingleAction(m, action), CountOf(action))

IsTerminal(action) == action.type \in {"finish", "fail"}

LoopStart(m) ==
    [caps |-> m, converted |-> <<>>, failed |-> <<>>, yields |-> <<>>,
     has_terminal |-> FALSE]

CallResult(raised, st) ==
    [raised |-> raised, out |-> IF raised = "none" THEN st.converted ELSE <<>>,
     failed |-> st.failed, yields |-> st.yields, caps |-> st.caps]


\* An iteration of the loop in which a failure throws away what was converted
LoopStep_failure_clears(st, i, r, terminal) ==
    [caps |-> r.caps,
     converted |-> IF r.err # "none" THEN <<>> ELSE st.converted \o r.out,
     failed |-> IF r.err # "none" THEN Append(st.failed, i) ELSE st.failed,
     yields |-> Append(st.yields, Len(r.out)),
     has_terminal |-> st.has_terminal \/ terminal]

\* One iteration of the loop of __call__: r is what _convert_action did
LoopStep(st, i, r, terminal) ==
    [caps |-> r.caps,
     converted |-> st.converted \o r.out,
     failed |-> IF r.err # "none" THEN Append(st.failed, i) ELSE st.failed,
     yields |-> Append(st.yields, Len(r.out)),
     has_terminal |-> st.has_terminal \/ terminal]

RECURSIVE PyLoop(_, _, _)
PyLoop(batch, i, st) ==
    IF i > Len(batch) THEN
        IF st.converted = <<>> /\ batch # <<>>
        THEN CallResult("all_failed", st) ELSE CallResult("none", st)
    ELSE IF IsTerminal(batch[i]) /\ st.has_terminal THEN CallResult("duplicate", st)
    ELSE PyLoop(batch, i + 1,
                LoopStep(st, i, PyConvertAction(st.caps, batch[i]), IsTerminal(batch[i])))

\* PyautoguiActionConvertor.__call__
PyCall(conv, batch) == PyLoop(batch, 1, LoopStart(conv.caps_manager))

(***************************************************************************)
(* OagiActionConverter (converters/oagi.py over converters/base.py)        *)
(***************************************************************************)
\* BaseActionConverter.__init__ with ConverterConfig(capslock_mode, strict_...)
NewOagiConverter(mode, strict) ==
    [caps_manager |-> NewCapsLockManager(mode),
     strict |-> strict,
     coord_scaler |-> NewScaler(OAGI_COORD_SIZE, OAGI_COORD_SIZE,
                                DEFAULT_SANDBOX_WIDTH, DEFAULT_SANDBOX_HEIGHT, 0, 0),
     last_x |-> None, last_y |-> None]

\* handler/utils.py KEY_MAP
normalize_key(k) ==
    LET key == StripLower(k)
    IN  CASE key \in {"caps_lock", "caps"} -> "capslock"
          [] key \in {"page_up", "pageup"} -> "pgup"
          [] key \in {"page_down", "pagedown"} -> "pgdn"
          [] OTHER -> key

\* parse_hotkey(validate=...): the keys, or <<"!invalid">> where validate_keys raises
parse_hotkey(arg, validate) ==
    LET keys == SelectSeq([i \in 1..Len(arg) |-> normalize_key(arg[i])], IsKey)
    IN  IF validate /\ SelectSeq(keys, IsInvalidKey) # <<>> THEN <<"!invalid">> ELSE keys

parse_click_coords(arg, sc, prevent_failsafe, strict) ==
    IF Len(arg) < 2 THEN Raised("format")
    ELSE IF FloatOf(arg[1]) = FloatErr \/ FloatOf(arg[2]) = FloatErr THEN Raised("format")
    ELSE scale(sc, FloatOf(arg[1]), FloatOf(arg[2]), TRUE, prevent_failsafe, strict)

OagiScale(conv, x, y) ==
    scale(conv.coord_scaler, FloatOf(x), FloatOf(y), TRUE, FALSE, conv.strict)

OagiClick(fn, arg, conv) ==
    ClickCmds(fn, parse_click_coords(arg, conv.coord_scaler, FALSE, conv.strict),
              conv.caps_manager)

OagiDrag(arg, conv) ==
    IF Len(arg) # 4 THEN Err("format", conv.caps_manager)
    ELSE IF FloatErr \in {FloatOf(arg[i]) : i \in 1..4} THEN Err("format", conv.caps_manager)
    ELSE DragCmds(OagiScale(conv, arg[1], arg[2]), OagiScale(conv, arg[3], arg[4]),
                  drag_duration, conv.caps_manager)

OagiScroll(arg, conv) ==
    IF Len(arg) # 3 THEN Err("format", conv.caps_manager)
    ELSE IF FloatOf(arg[1]) = FloatErr \/ FloatOf(arg[2]) = FloatErr
         THEN Err("format", conv.caps_manager)
    ELSE IF StripLower(arg[3]) \notin {"up", "down"} THEN Err("direction", conv.caps_manager)
    ELSE ScrollCmds(OagiScale(conv, arg[1], arg[2]), StripLower(arg[3]),
                    DEFAULT_CONVERTER_SCROLL_AMOUNT, conv.caps_manager)

OagiConvertSingleAction(conv, action) ==
    CASE action.type = "click" -> OagiClick("pyautogui.click", action.argument, conv)
      [] action.type = "left_double" ->
           OagiClick("pyautogui.doubleClick", action.argument, conv)
      [] action.type = "left_triple" ->
           OagiClick("pyautogui.tripleClick", action.argument, conv)
      [] action.type = "right_single" ->
           OagiClick("pyautogui.rightClick", action.argument, conv)
      [] action.type = "drag" -> OagiDrag(action.argument, conv)
      [] action.type = "hotkey" ->
           HotkeyCmds(parse_hotkey(action.argument, TRUE), conv.caps_manager)
      [] action.type = "type" ->
           Ok(<<Cmd("pyautogui.typewrite", <<>>,
                    <<transform_text(conv.caps_manager,
                                     StripQuotes(ArgText(action.argument)))>>)>>,
              conv.caps_manager)
      [] action.type = "scroll" -> OagiScroll(action.argument, conv)
      [] action.type = "wait" -> WaitCmds(WaitSeconds(action.argument), conv.caps_manager)
      [] action.type = "finish" -> Ok(<<Cmd("DONE", <<>>, <<>>)>>, conv.caps_manager)
      [] action.type = "call_user" -> Ok(<<>>, conv.caps_manager)
      [] OTHER -> Err("unknown action type", conv.caps_manager)

OagiConvertAction(conv, action) ==
    Repeated(OagiConvertSingleAction(conv, action), CountOf(action))

RECURSIVE OagiLoop(_, _, _, _)
OagiLoop(conv, batch, i, st) ==
    IF i > Len(batch) THEN
        IF st.converted = <<>> /\ batch # <<>> /\ st.failed # <<>>
        THEN CallResult("all_failed", st) ELSE CallResult("none", st)
    ELSE IF batch[i].type = "finish" /\ st.has_terminal THEN CallResult("duplicate", st)
    ELSE OagiLoop(conv, batch, i + 1,
                  LoopStep(st, i,
                           OagiConvertAction([conv EXCEPT !.caps_manager = st.caps], batch[i]),
                           batch[i].type = "finish"))

\* OagiActionConverter.__call__
OagiCall(conv, batch) == OagiLoop(conv, batch, 1, LoopStart(conv.caps_manager))

(***************************************************************************)
(* Local action handlers (handler/pyautogui_action_handler.py,             *)
(* handler/ydotool_action_handler.py)                                      *)
(***************************************************************************)
\* int(match.group(i)) of the regex (\d+): the number, or -1 where \d+ does not match
DigitsOf(tok) ==
    IF tok \in {"0", "2", "100", "300", "500", "1000", "1050"} THEN FloatOf(tok).v ELSE -1

\* types/models/action.py parse_coords / parse_drag_coords: re.match on n leading numbers
MatchesNumbers(arg, n) == Len(arg) >= n /\ \A i \in 1..n : DigitsOf(arg[i]) >= 0

\* types/models/action.py parse_scroll: x, y and a direction of up / down
MatchesScroll(arg) ==
    MatchesNumbers(arg, 2) /\ Len(arg) >= 3 /\ StripLower(arg[3]) \in {"up", "down"}

\* PyautoguiActionHandler.__init__ on a screen of the given size
NewPyautoguiActionHandler(mode, w, h) ==
    [caps_manager |-> NewCapsLockManager(mode),
     coord_scaler |-> NewScaler(OAGI_COORD_SIZE, OAGI_COORD_SIZE, w, h, 0, 0)]

\* YdotoolActionHandler.__init__ on a screen of the given size
NewYdotoolActionHandler(mode, w, h) ==
    [caps_manager |-> NewCapsLockManager(mode),
     screen_width |-> w, screen_height |-> h, origin_x |-> 0, origin_y |-> 0]

Done(calls, m) == [err |-> "none", calls |-> calls, caps |-> m]
Abort(e, m) == [err |-> e, calls |-> <<>>, caps |-> m]

\* PyautoguiConfig.scroll_amount (platforms other than macOS), YdotoolConfig.scroll_amount
handler_scroll_amount == 100
ydotool_scroll_amount == 20

\* The actions whose argument carries coordinates
IsPointing(action) ==
    action.type \in {"click", "left_double", "left_triple", "right_single", "drag", "scroll"}

\* The coordinate pairs _parse_coords, _parse_scroll (one) and
\* _parse_drag_coords (two) denormalize
PointsOf(action) == IF action.type = "drag" THEN 2 ELSE 1

\* parse_coords / parse_drag_coords / parse_scroll find no match: ValueError
BadFormat(action) ==
    CASE action.type = "drag" -> ~MatchesNumbers(action.argument, 4)
      [] action.type = "scroll" -> ~MatchesScroll(action.argument)
      [] OTHER -> ~MatchesNumbers(action.argument, 2)

\* The i-th coordinate pair of the argument, as the regex parsed it
RawPoint(action, i) ==
    <<DigitsOf(action.argument[2 * i - 1]), DigitsOf(action.argument[2 * i])>>

\* PyautoguiActionHandler._denormalize_coords, nothing else writing the scaler
\* while it runs
PyHDenormalize(h, x, y) == scale(h.coord_scaler, Fin(x), Fin(y), TRUE, TRUE, FALSE)

PyHDenormalized(h, action) ==
    [i \in 1..PointsOf(action) |->
        PyHDenormalize(h, RawPoint(action, i)[1], RawPoint(action, i)[2])]

MovedThen(c, fn, m) ==
    Done(<<Cmd("pyautogui.moveTo", <<c.x, c.y>>, <<>>), Cmd(fn, <<>>, <<>>)>>, m)

Dragged(s, e, m) ==
    Done(<<Cmd("pyautogui.moveTo", <<s.x, s.y>>, <<>>),
           Cmd("pyautogui.dragTo", <<e.x, e.y>>, <<drag_duration, "left">>)>>, m)

Scrolled(c, direction, m) ==
    Done(<<Cmd("pyautogui.moveTo", <<c.x, c.y>>, <<>>),
           Cmd("pyautogui.scroll",
               <<IF direction = "up" THEN handler_scroll_amount
                 ELSE -handler_scroll_amount>>, <<>>)>>, m)

\* The pyautogui calls of a pointing action whose coordinates came out as pts
PyHPointing(action, pts, m) ==
    CASE action.type = "click" -> MovedThen(pts[1], "pyautogui.click", m)
      [] action.type = "left_double" -> MovedThen(pts[1], "pyautogui.doubleClick", m)
      [] action.type = "left_triple" -> MovedThen(pts[1], "pyautogui.tripleClick", m)
      [] action.type = "right_single" -> MovedThen(pts[1], "pyautogui.rightClick", m)
      [] action.type = "drag" -> Dragged(pts[1], pts[2], m)
      [] action.type = "scroll" ->
           Scrolled(pts[1], StripLower(action.argument[3]), m)

PyHHotkey(keys, m) ==
    IF keys = <<"capslock">> THEN
        IF should_use_system_capslock(m)
        THEN Done(<<Cmd("pyautogui.hotkey", <<>>, <<"capslock">>)>>, m)
        ELSE Done(<<>>, toggle(m))
    ELSE Done(<<Cmd("pyautogui.hotkey", <<>>, keys)>>, m)

\* PyautoguiActionHandler._execute_single_action (on a platform other than
\* macOS / Windows), nothing else touching the handler while it runs
PyHExecuteSingle(h, m, action) ==
    IF IsPointing(action) THEN
        IF BadFormat(action) THEN Abort("format", m)
        ELSE PyHPointing(action, PyHDenormalized(h, action), m)
    ELSE CASE action.type = "hotkey" ->
                PyHHotkey(parse_hotkey(action.argument, FALSE), m)
           [] action.type = "type" ->
                Done(<<Cmd("pyautogui.typewrite", <<>>,
                           <<transform_text(m, StripQuotes(ArgText(action.argument)))>>)>>, m)
           [] action.type \in {"finish", "fail"} -> Done(<<>>, reset(m))
           [] OTHER -> Done(<<>>, m)

\* PyautoguiActionHandler._execute_action: the single action, count times
\* What has been done so far, followed by one more execution r
Then(acc, r) == [err |-> r.err, calls |-> acc.calls \o r.calls, caps |-> r.caps]

RECURSIVE PyHRepeat(_, _, _, _)
PyHRepeat(h, action, k, acc) ==
    IF k = 0 \/ acc.err # "none" THEN acc
    ELSE PyHRepeat(h, action, k - 1, Then(acc, PyHExecuteSingle(h, acc.caps, action)))

PyHExecuteAction(h, m, action) == PyHRepeat(h, action, CountOf(action), Done(<<>>, m))

\* The fail-safe adjustment of _denormalize_coords: below 1 is 1, above
\* size - 1 is size - 1
YdOffEdge(v, size) == IF v < 1 THEN 1 ELSE IF v > size - 1 THEN size - 1 ELSE v

\* YdotoolActionHandler._denormalize_coords on one axis: int(x * width / 1000),
\* kept off the edges, plus the origin
YdAxis(v, size, origin) == YdOffEdge((v * size) \div 1000, size) + origin

YdDenormalize(h, x, y) ==
    <<YdAxis(x, h.screen_width, h.origin_x), YdAxis(y, h.screen_height, h.origin_y)>>

\* args_str.split("+") of the hotkey arguments of the model
PlusSplit(arg) ==
    CASE arg = <<"CapsLock">> -> <<"CapsLock">>
      [] arg = <<"Ctrl", " c">> -> <<"Ctrl, c">>
      [] arg = <<"ret">> -> <<"ret">>
      [] OTHER -> <<"">>

\* YdotoolActionHandler._normalize_key
YdNormalizeKey(k) ==
    LET key == IF k = "Ctrl, c" THEN "ctrl, c" ELSE StripLower(k)
    IN  CASE key \in {"caps_lock", "caps", "capslock"} -> "capslock"
          [] key \in {"page_up", "pageup"} -> "pgup"
          [] key \in {"page_down", "pagedown"} -> "pgdn"
          [] OTHER -> key

\* YdotoolActionHandler._parse_hotkey
YdParseHotkey(arg) ==
    [i \in 1..Len(PlusSplit(arg)) |-> YdNormalizeKey(PlusSplit(arg)[i])]

\* Ydotool._run_ydotool(args, count): one ydotool process; nums holds the
\* --repeat argument, given when count > 1
Ydotool(args, count) == Cmd("ydotool", IF count > 1 THEN <<count>> ELSE <<>>, args)

\* Ydotool.mousemove(x, y)
YdMouseMove(c) ==
    Ydotool(<<"mousemove", "--absolute", "-x", ToString(c[1]), "-y", ToString(c[2])>>, 1)

\* Ydotool.click(x, y, count, right): the move, then the click
YdClicked(c, count, right, m) ==
    Done(<<YdMouseMove(c), Ydotool(<<"click", IF right THEN "0xC1" ELSE "0xC0">>, count)>>, m)

\* Ydotool.drag(x1, y1, x2, y2, count): move, button down, move, button up, count times
YdDragOnce(s, e) ==
    <<YdMouseMove(s), Ydotool(<<"click", "0x40">>, 1),
      YdMouseMove(e), Ydotool(<<"click", "0x80">>, 1)>>

YdDragged(s, e, count, m) ==
    Done([i \in 1..(4 * count) |-> YdDragOnce(s, e)[((i - 1) % 4) + 1]], m)

\* KEYCODE_MAP of the keys of the model; 0 where the key has no entry
YdKeycode(key) ==
    CASE key = "capslock" -> 58
      [] key = "ctrl" -> 29
      [] key = "c" -> 46
      [] OTHER -> 0

HasKeycode(key) == YdKeycode(key) # 0

YdKeyArgs(keys, updown) ==
    [i \in 1..Len(keys) |-> ToString(YdKeycode(keys[i])) \o updown]

Reversed(seq) == [i \in 1..Len(seq) |-> seq[Len(seq) + 1 - i]]

\* Ydotool.hotkey(keys, count): the known keys pressed in order, released in reverse
YdKeyCommand(known, count) ==
    Ydotool(<<"key">> \o YdKeyArgs(known, ":1") \o YdKeyArgs(Reversed(known), ":0"), count)

YdHotkey(keys, count, m) ==
    IF keys = <<"capslock">> THEN
        IF should_use_system_capslock(m)
        THEN Done(<<YdKeyCommand(<<"capslock">>, 1)>>, m)
        ELSE Done(<<>>, toggle(m))
    ELSE Done(<<YdKeyCommand(SelectSeq(keys, HasKeycode), count)>>, m)

YdDenormalized(h, action) ==
    [i \in 1..PointsOf(action) |->
        YdDenormalize(h, RawPoint(action, i)[1], RawPoint(action, i)[2])]

\* The ydotool commands of a pointing action whose coordinates came out as
\* pts (a scroll parses its coordinates and does not use them)
YdPointing(action, pts, m) ==
    CASE action.type = "drag" -> YdDragged(pts[1], pts[2], CountOf(action), m)
      [] action.type = "scroll" ->
           Done(<<Ydotool(<<"mousemove", "-w", "--", "0",
                            ToString(IF StripLower(action.argument[3]) = "up"
                                     THEN ydotool_scroll_amount
                                     ELSE -ydotool_scroll_amount)>>, 1)>>, m)
      [] action.type = "right_single" -> YdClicked(pts[1], CountOf(action), TRUE, m)
      [] action.type = "left_double" -> YdClicked(pts[1], 2 * CountOf(action), FALSE, m)
      [] action.type = "left_triple" -> YdClicked(pts[1], 3 * CountOf(action), FALSE, m)
      [] action.type = "click" -> YdClicked(pts[1], CountOf(action), FALSE, m)

\* YdotoolActionHandler._execute_action, nothing else touching the handler
\* while it runs and every ydotool process exiting with 0
YdExecuteAction(h, m, action) ==
    IF IsPointing(action) THEN
        IF BadFormat(action) THEN Abort("format", m)
        ELSE YdPointing(action, YdDenormalized(h, action), m)
    ELSE CASE action.type = "hotkey" ->
                YdHotkey(YdParseHotkey(action.argument), CountOf(action), m)
           [] action.type = "type" ->
                Done(<<Ydotool(<<"type",
                                 transform_text(m, StripQuotes(ArgText(action.argument)))>>,
                               CountOf(action))>>, m)
           [] action.type = "finish" -> Done(<<>>, reset(m))
           [] OTHER -> Done(<<>>, m)

\* handler.__call__ when nothing else touches the handler while it runs: the
\* actions in order; an exception ends the batch and is re-raised.
\* trace holds the capslock flag after each executed action.
Executed(st, r) ==
    [raised |-> r.err, caps |-> r.caps, calls |-> st.calls \o r.calls,
     trace |-> Append(st.trace, r.caps.caps_enabled)]

ExecuteAction(which, h, m, action) ==
    IF which = "py" THEN PyHExecuteAction(h, m, action) ELSE YdExecuteAction(h, m, action)

RECURSIVE HandleLoop(_, _, _, _, _)
HandleLoop(which, h, batch, i, st) ==
    IF i > Len(batch) \/ st.raised # "none" THEN st
    ELSE HandleLoop(which, h, batch, i + 1,
                    Executed(st, ExecuteAction(which, h, st.caps, batch[i])))

HandlerCall(which, h, batch) ==
    HandleLoop(which, h, batch, 1,
               [raised |-> "none", caps |-> h.caps_manager, calls |-> <<>>, trace |-> <<>>])

(***************************************************************************)
(* State of the whole model after construction                             *)
(***************************************************************************)
\* self._last_x: int | None = None, the None written as a number no scaled
\* coordinate takes
NoPos == -1

\* An optional tuple, list or key text that is None
Absent == <<>>

\* BaseActionConverter.__init__ as ClaudeActionConverter inherits it: the
\* scaler from XGA to the sandbox, no cursor yet
NewClaudeConverter ==
    [coord_scaler |-> NewScaler(XGA_WIDTH, XGA_HEIGHT, DEFAULT_SANDBOX_WIDTH,
                                DEFAULT_SANDBOX_HEIGHT, 0, 0),
     last_x |-> NoPos, last_y |-> NoPos]

\* Qwen3ActionConverter.__init__: the cursor starts at the centre of the sandbox
NewQwen3Converter ==
    [coord_scaler |-> NewScaler(QWEN3_COORD_SIZE, QWEN3_COORD_SIZE,
                                DEFAULT_SANDBOX_WIDTH, DEFAULT_SANDBOX_HEIGHT, 0, 0),
     last_x |-> DEFAULT_SANDBOX_WIDTH \div 2, last_y |-> DEFAULT_SANDBOX_HEIGHT \div 2]

\* DefaultAgent.__init__ / AsyncDefaultAgent.__init__: the step budget is kept
NewDefaultAgent(max_steps) == [pc |-> "idle", max_steps |-> max_steps]

Idle == [op |-> "idle"]

CapsModes == {"session", "system"}

\* The objects as their constructors leave them, each with its capslock mode
ConstructTools(mCaps, mPyConv, mOagiConv, strictOagi, mPyHandler, mYdHandler) ==
    /\ scaler = NewScaler(OAGI_COORD_SIZE, OAGI_COORD_SIZE,
                          DEFAULT_SANDBOX_WIDTH, DEFAULT_SANDBOX_HEIGHT, 0, 0)
    /\ capsMgr = NewCapsLockManager(mCaps)
    /\ toggles = 0
    /\ pyConv = [caps_manager |-> NewCapsLockManager(mPyConv)]
    /\ oagiConv = NewOagiConverter(mOagiConv, strictOagi)
    /\ pyHandler = NewPyautoguiActionHandler(mPyHandler, DEFAULT_SANDBOX_WIDTH,
                                              DEFAULT_SANDBOX_HEIGHT)
    /\ ydHandler = NewYdotoolActionHandler(mYdHandler, DEFAULT_SANDBOX_WIDTH,
                                            DEFAULT_SANDBOX_HEIGHT)
    /\ res = Idle
    /\ claudeConv = NewClaudeConverter
    /\ qwenConv = NewQwen3Converter

Construct(mCaps, mPyConv, mOagiConv, strictOagi, mPyHandler, mYdHandler) ==
    /\ ConstructTools(mCaps, mPyConv, mOagiConv, strictOagi, mPyHandler, mYdHandler)
    /\ agent = NewDefaultAgent(DEFAULT_MAX_STEPS)

\* Every object built with its default configuration (capslock_mode "session")
Init == Construct("session", "session", "session", FALSE, "session", "session")

\* The caller drops the result of the last call and is ready for the next one.
Discard ==
    /\ res.op \notin {"idle", "handling"}
    /\ res' = Idle
    /\ UNCHANGED <<claudeConv, qwenConv, agent, scaler, capsMgr, toggles, pyConv, oagiConv, pyHandler, ydHandler>>

(***************************************************************************)
(* The coordinate scaler in use                                            *)
(***************************************************************************)
\* Target displays (width, height) and their origins (multi-monitor layouts)
Screens == {<<1920, 1080>>, <<1280, 720>>, <<1500, 500>>}
Origins == {<<0, 0>>, <<1920, 0>>, <<-1280, 100>>}

\* Coordinates handed to scale(): ints and the non-finite floats
ScaleInputs ==
    {Fin(v) : v \in {-10, 0, 1, 3, 300, 500, 999, 1000, 1050}}
        \cup {NaN, PosInf, NegInf}

ScaleCall(x, y, clamp, prevent_failsafe, strict) ==
    /\ res.op = "idle"
    /\ res' = [op |-> "scale", x |-> x, y |-> y, clamp |-> clamp,
               prevent_failsafe |-> prevent_failsafe, strict |-> strict,
               out |-> scale(scaler, x, y, clamp, prevent_failsafe, strict)]
    /\ UNCHANGED <<claudeConv, qwenConv, agent, scaler, capsMgr, toggles, pyConv, oagiConv, pyHandler, ydHandler>>

SetTargetSize(w, h) ==
    /\ res.op = "idle"
    /\ scaler' = set_target_size(scaler, w, h)
    /\ UNCHANGED <<claudeConv, qwenConv, agent, capsMgr, toggles, pyConv, oagiConv, pyHandler, ydHandler, res>>

SetOrigin(ox, oy) ==
    /\ res.op = "idle"
    /\ scaler' = set_origin(scaler, ox, oy)
    /\ UNCHANGED <<claudeConv, qwenConv, agent, capsMgr, toggles, pyConv, oagiConv, pyHandler, ydHandler, res>>

NextScaler ==
    \/ \E x \in ScaleInputs, y \in ScaleInputs, c \in BOOLEAN, p \in BOOLEAN, s \in BOOLEAN :
          ScaleCall(x, y, c, p, s)
    \/ \E scr \in Screens : SetTargetSize(scr[1], scr[2])
    \/ \E o \in Origins : SetOrigin(o[1], o[2])
    \/ Discard

SpecScaler == Init /\ [][NextScaler]_vars

IsFinite(x) == x.k = "fin"

OutOfSourceRange(s, x, y) ==
    \/ FloatLt(x, 0) \/ FloatGt(x, s.source_width)
    \/ FloatLt(y, 0) \/ FloatGt(y, s.source_height)

\* C4 as stated: with clamp on and strict off scale never raises for any
\* numeric input and maps x = source_width to target_width - 1 (plus origin);
\* with strict on it raises the range error exactly when a coordinate is
\* outside [0, source extent], so the boundary x = source_width is accepted
\* and clamped to target_width - 1.
C4_AsStated ==
    res.op = "scale" =>
        /\ (res.clamp /\ ~res.strict) => res.out.raised = "none"
        /\ (res.clamp /\ ~res.prevent_failsafe /\ res.out.raised = "none"
              /\ res.x = Fin(scaler.source_width))
             => res.out.x = scaler.target_width - 1 + scaler.origin_x
        /\ res.strict => ((res.out.raised = "range") <=> OutOfSourceRange(scaler, res.x, res.y))

\* C4 (amended): with clamp on and strict off scale never raises for any
\* finite numeric input (NaN and the infinities make round() raise) and, corner
\* protection off, maps x = source_width to target_width - 1 (plus origin);
\* with strict on it raises the range error exactly when x < 0,
\* x > source_width, y < 0 or y > source_height, so the boundary
\* x = source_width is accepted and clamped to target_width - 1.
C4_ScaleBoundary ==
    res.op = "scale" =>
        /\ (res.clamp /\ ~res.strict /\ IsFinite(res.x) /\ IsFinite(res.y))
             => res.out.raised = "none"
        /\ (~res.strict /\ ~(IsFinite(res.x) /\ IsFinite(res.y)))
             => res.out.raised \in {"ValueError", "OverflowError"}
        /\ (res.clamp /\ ~res.prevent_failsafe /\ res.out.raised = "none"
              /\ res.x = Fin(scaler.source_width))
             => res.out.x = scaler.target_width - 1 + scaler.origin_x
        /\ res.strict => ((res.out.raised = "range") <=> OutOfSourceRange(scaler, res.x, res.y))
        /\ (res.strict /\ res.x = Fin(scaler.source_width) /\ IsFinite(res.y)
              /\ ~FloatLt(res.y, 0) /\ ~FloatGt(res.y, scaler.source_height))
             => res.out.raised = "none"

C4_Witness ==
    /\ res.op = "scale" /\ res.strict /\ res.clamp /\ ~res.prevent_failsafe
    /\ res.x = Fin(scaler.source_width)
    /\ res.out.raised = "none"
    /\ res.out.x = scaler.target_width - 1 + scaler.origin_x

\* The claim's own reading of one axis of scale()
ClaimNudge(v, target) ==
    IF v = 0 THEN 1 ELSE IF v = target - 1 THEN target - 2 ELSE v

ClaimAxis(v, source, target, origin, clamp, nudge) ==
    LET r == RoundHalfEven(v * target, source)
        c == IF clamp THEN (IF r < 0 THEN 0 ELSE IF r > target - 1 THEN target - 1 ELSE r)
             ELSE r
        n == IF nudge THEN ClaimNudge(c, target) ELSE c
    IN  n + origin

ClaimCovers(v, source, target, clamp, nudge) ==
    LET r == RoundHalfEven(v * target, source)
    IN  clamp \/ ~nudge \/ (0 <= r /\ r <= target - 1)

\* C5: scale(x, y) is, per axis, origin + nudge(clamp(round(v * target /
\* source))) with the scaler's current target extents and origin; after
\* set_target_size / set_origin the scaler behaves like a freshly built one;
\* "500, 300" on 1920x1080 with zero origin gives (960, 324).
C5_ScaleFormula ==
    (res.op = "scale" /\ res.out.raised = "none") =>
        /\ ClaimCovers(res.x.v, scaler.source_width, scaler.target_width,
                       res.clamp, res.prevent_failsafe)
             => res.out.x = ClaimAxis(res.x.v, scaler.source_width, scaler.target_width,
                                      scaler.origin_x, res.clamp, res.prevent_failsafe)
        /\ ClaimCovers(res.y.v, scaler.source_height, scaler.target_height,
                       res.clamp, res.prevent_failsafe)
             => res.out.y = ClaimAxis(res.y.v, scaler.source_height, scaler.target_height,
                                      scaler.origin_y, res.clamp, res.prevent_failsafe)
        /\ res.out = scale(NewScaler(scaler.source_width, scaler.source_height,
                                     scaler.target_width, scaler.target_height,
                                     scaler.origin_x, scaler.origin_y),
                           res.x, res.y, res.clamp, res.prevent_failsafe, res.strict)
        /\ (/\ scaler.target_width = 1920 /\ scaler.target_height = 1080
            /\ scaler.origin_x = 0 /\ scaler.origin_y = 0
            /\ res.x = Fin(500) /\ res.y = Fin(300) /\ ~res.prevent_failsafe)
             => (res.out.x = 960 /\ res.out.y = 324)

C5_Witness ==
    /\ res.op = "scale" /\ res.out.raised = "none"
    /\ res.clamp /\ res.prevent_failsafe
    /\ scaler.target_width = 1280 /\ scaler.origin_x = 1920
    /\ res.x = Fin(1000) /\ res.out.x = 1920 + 1278
    /\ res.y = Fin(300) /\ res.out.y = 216

(***************************************************************************)
(* The capslock state machine in use                                       *)
(***************************************************************************)
Toggle ==
    /\ res.op = "idle"
    /\ toggles < MaxToggles
    /\ capsMgr' = toggle(capsMgr)
    /\ toggles' = toggles + 1
    /\ UNCHANGED <<claudeConv, qwenConv, agent, scaler, pyConv, oagiConv, pyHandler, ydHandler, res>>

Reset ==
    /\ res.op = "idle"
    /\ capsMgr' = reset(capsMgr)
    /\ toggles' = 0
    /\ UNCHANGED <<claudeConv, qwenConv, agent, scaler, pyConv, oagiConv, pyHandler, ydHandler, res>>

TransformText(t) ==
    /\ res.op = "idle"
    /\ res' = [op |-> "transform_text", text |-> t, caps_before |-> capsMgr.caps_enabled,
               out |-> transform_text(capsMgr, t)]
    /\ UNCHANGED <<claudeConv, qwenConv, agent, scaler, capsMgr, toggles, pyConv, oagiConv, pyHandler, ydHandler>>

InitCaps ==
    \E m \in CapsModes : Construct(m, "session", "session", FALSE, "session", "session")

NextCaps ==
    \/ Toggle
    \/ Reset
    \/ \E t \in Texts : TransformText(t)
    \/ Discard

SpecCaps == InitCaps /\ [][NextCaps]_vars

\* C6: in session mode the flag is true iff the number of toggle() calls since
\* construction or the last reset() is odd, and transform_text(t) is t
\* upper-cased iff the flag is true; in system mode the flag is never true and
\* transform_text is the identity; transform_text never changes the flag.
C6_CapsLockStateMachine ==
    /\ capsMgr.mode = "session" => (capsMgr.caps_enabled <=> toggles % 2 = 1)
    /\ capsMgr.mode = "system" => ~capsMgr.caps_enabled
    /\ res.op = "transform_text" =>
          /\ capsMgr.caps_enabled = res.caps_before
          /\ res.out = IF capsMgr.mode = "session" /\ capsMgr.caps_enabled
                       THEN Upper(res.text) ELSE res.text

C6_Witness ==
    /\ capsMgr.mode = "session" /\ toggles = 3 /\ capsMgr.caps_enabled
    /\ res.op = "transform_text" /\ res.text = "Hello World" /\ res.out = "HELLO WORLD"

(***************************************************************************)
(* The native-dialect converters in use                                    *)
(***************************************************************************)
Action(type, argument, count) == [type |-> type, argument |-> argument, count |-> count]


\* The argument the parser gives a press_click action: the JSON text
\* {"keys":["ctrl"],"click_type":"left_click","coordinate":[500,300]}, which
\* has four comma-separated fields
PressClickArgument ==
    <<"{\"keys\":[\"ctrl\"]", "\"click_type\":\"left_click\"",
      "\"coordinate\":[500", "300]}">>

\* Actions a parsed Step can carry: every type repeated once, and the
\* repeatable ones with each count of 2..MaxCount or with no count at all.
NativeActions ==
    {Action("click", <<"500", "300">>, c) : c \in (1..MaxCount) \cup {NoCount}}
    \cup {Action("drag", <<"100", "100", "500", "300">>, c) : c \in 1..MaxCount}
    \cup {Action("hotkey", <<"CapsLock">>, c) : c \in 1..2}
    \cup {Action("finish", <<>>, c) : c \in 1..2}
    \cup {Action("click", <<"1050", "300">>, 1),
          Action("hotkey", <<"Ctrl", " c">>, 1),
          Action("hotkey", <<"ret">>, 1),
          Action("type", <<"abc">>, 1),
          Action("type", <<>>, 1),
          Action("scroll", <<"500", "300", "UP">>, 1),
          Action("fail", <<>>, 1),
          Action("call_user", <<>>, 1),
          Action("mouse_move", <<"500", "300">>, 1),
          Action("left_click_drag", <<"800", "600">>, 1),
          Action("press_click", PressClickArgument, 1)}

Batches == UNION {[1..n -> NativeActions] : n \in 0..MaxBatch}

ConvertResult(conv, batch, before, r) ==
    [op |-> "convert", conv |-> conv, batch |-> batch, before |-> before,
     raised |-> r.raised, out |-> r.out, failed |-> r.failed,
     yields |-> r.yields, after |-> r.caps]

\* PyautoguiActionConvertor()(batch)
PyConverted(batch, r) ==
    /\ pyConv' = [pyConv EXCEPT !.caps_manager = r.caps]
    /\ res' = ConvertResult("py", batch, pyConv.caps_manager, r)

PyConvert ==
    /\ res.op = "idle"
    /\ \E batch \in Batches : PyConverted(batch, PyCall(pyConv, batch))
    /\ UNCHANGED <<claudeConv, qwenConv, agent, scaler, capsMgr, toggles, oagiConv, pyHandler, ydHandler>>

\* OagiActionConverter()(batch)
OagiConverted(batch, r) ==
    /\ oagiConv' = [oagiConv EXCEPT !.caps_manager = r.caps]
    /\ res' = ConvertResult("oagi", batch, oagiConv.caps_manager, r)

OagiConvert ==
    /\ res.op = "idle"
    /\ \E batch \in Batches : OagiConverted(batch, OagiCall(oagiConv, batch))
    /\ UNCHANGED <<claudeConv, qwenConv, agent, scaler, capsMgr, toggles, pyConv, pyHandler, ydHandler>>

\* Both converters built with one capslock mode; strict validation on or off
InitConv ==
    \E m \in CapsModes, strict \in BOOLEAN :
        Construct("session", m, m, strict, "session", "session")

NextConv == PyConvert \/ OagiConvert \/ Discard

SpecConv == InitConv /\ [][NextConv]_vars

\* The single conversion the converter of the last call makes of an action
SingleOf(action) ==
    IF res.conv = "py"
    THEN PyConvertSingleAction(res.before, action)
    ELSE OagiConvertSingleAction([oagiConv EXCEPT !.caps_manager = res.before], action)

\* The entries a call returns for one action converted to `cmds`, count n
IsExpansion(out, cmds, n) ==
    /\ Len(out) = n * Len(cmds)
    /\ \A p \in 1..Len(out) :
         /\ out[p].cmd = cmds[((p - 1) % Len(cmds)) + 1]
         /\ out[p].is_last <=> (p = n * Len(cmds))

ExpandsSingle(single, n) ==
    (single.err = "none" /\ Len(single.cmds) >= 1) =>
        (res.raised = "none" /\ IsExpansion(res.out, single.cmds, n))

\* C1: converting one Action whose single conversion yields m >= 1 commands,
\* with count n >= 1, returns exactly n*m entries, the m commands repeated n
\* times in order, and is_last is true on the last entry and on no other.
C1_CountExpansion ==
    (res.op = "convert" /\ Len(res.batch) = 1) =>
        ExpandsSingle(SingleOf(res.batch[1]), CountOf(res.batch[1]))

C1_Witness ==
    /\ res.op = "convert"
    /\ Len(res.batch) = 1
    /\ res.batch[1].type = "drag"
    /\ res.batch[1].count = MaxCount
    /\ Len(res.out) = 2 * MaxCount
    /\ res.out[Len(res.out)].is_last

RECURSIVE SumTo(_, _)
SumTo(seq, i) == IF i = 0 THEN 0 ELSE seq[i] + SumTo(seq, i - 1)

Returned1 == res.op = "convert" /\ res.raised = "none" /\ res.out # <<>>

\* Positions of the output that end the commands of one action of the batch
ActionEnds ==
    {SumTo(res.yields, i) : i \in {j \in 1..Len(res.yields) : res.yields[j] > 0}}

C2_AsStated ==
    Returned1 => \A p \in 1..Len(res.out) : res.out[p].is_last <=> (p = Len(res.out))

\* C2: when a convert call returns at least one command, is_last is true on
\* exactly the final command of the final repeat of each action that yielded
\* commands (one entry per such action, not one per batch); the final entry
\* of the whole output is always one of them.
C2_IsLastPerAction ==
    Returned1 =>
        /\ res.out[Len(res.out)].is_last
        /\ \A p \in 1..Len(res.out) : res.out[p].is_last <=> (p \in ActionEnds)

C2_Witness ==
    /\ Returned1
    /\ Len(res.batch) = 2
    /\ res.yields = <<2 * MaxCount, 1>>
    /\ res.out[2 * MaxCount].is_last
    /\ res.out[2 * MaxCount + 1].is_last

Terminals(batch) == {i \in 1..Len(batch) : batch[i].type \in {"finish", "fail"}}

\* C3: a batch with two terminal actions (any two of finish/fail, anywhere in
\* the batch) makes convert raise the duplicate-terminal error and return no
\* command.
C3_DuplicateTerminalRaises ==
    (res.op = "convert" /\ Cardinality(Terminals(res.batch)) >= 2) =>
        (res.raised = "duplicate" /\ res.out = <<>>)

IsCapsHotkey(action) ==
    action.type = "hotkey" /\ action.argument \in {<<"CapsLock">>}

\* C7: after a converter has processed a batch that contains a finish or fail
\* action (and no capslock hotkey after it), its capslock flag is disabled,
\* so that a type action of the next batch is not upper-cased.
C7_ConverterResetOnTerminal ==
    (/\ res.op = "convert"
     /\ res.raised = "none"
     /\ \E i \in Terminals(res.batch) :
          \A j \in (i + 1)..Len(res.batch) : ~IsCapsHotkey(res.batch[j]))
    => /\ ~res.after.caps_enabled
       /\ (res.conv = "py" => ~pyConv.caps_manager.caps_enabled)
       /\ (res.conv = "oagi" => ~oagiConv.caps_manager.caps_enabled)

(***************************************************************************)
(* The local action handlers in use                                        *)
(***************************************************************************)
\* Actions the handlers are given
HandlerActions ==
    {Action("click", <<"500", "300">>, c) : c \in 1..2}
    \cup {Action("hotkey", <<"CapsLock">>, c) : c \in 1..2}
    \cup {Action("click", <<"1000", "0">>, 1),
          Action("click", <<"nan", "300">>, 1),
          Action("drag", <<"100", "100", "500", "300">>, 1),
          Action("hotkey", <<"Ctrl", " c">>, 1),
          Action("type", <<"abc">>, 1),
          Action("scroll", <<"500", "300", "UP">>, 1),
          Action("finish", <<>>, 1),
          Action("fail", <<>>, 1),
          Action("call_user", <<>>, 1)}

\* The actions that read or change the capslock state, and a click
SessionActions ==
    {Action("hotkey", <<"CapsLock">>, 1), Action("type", <<"abc">>, 1),
     Action("finish", <<>>, 1), Action("fail", <<>>, 1),
     Action("click", <<"500", "300">>, 1)}

\* The batches the handlers are given: every action alone, and the sequences
\* of up to MaxBatch session actions
HandlerBatches ==
    [1..1 -> HandlerActions] \cup UNION {[1..n -> SessionActions] : n \in 0..MaxBatch}

\* Screens a handler is retargeted to: width, height and origin
TargetScreens ==
    {[width |-> 1280, height |-> 720, x |-> 1920, y |-> 0],
     [width |-> 1500, height |-> 500, x |-> -1280, y |-> 100]}

\* The set_target_screen calls the caller makes on a handler while one call
\* of that handler runs
MaxRetargets == 1

\* A coordinate pair being denormalized: pc is the statement of
\* CoordinateScaler.scale / YdotoolActionHandler._denormalize_coords that
\* makes the next read of the handler's geometry, x and y are the values of
\* scaled_x / screen_x and scaled_y / screen_y so far
Scaling(pc, x, y) == [pc |-> pc, x |-> x, y |-> y]
NotScaling == Scaling("none", 0, 0)

\* if scaled_y < 1: scaled_y = 1, else on to the test that reads the height
FailsafeY(p) ==
    IF p.y < 1 THEN [p EXCEPT !.y = 1, !.pc = "origin_x"] ELSE [p EXCEPT !.pc = "test_y"]

\* if scaled_x < 1: scaled_x = 1, else on to the test that reads the width
FailsafeX(p) ==
    IF p.x < 1 THEN FailsafeY([p EXCEPT !.x = 1]) ELSE [p EXCEPT !.pc = "test_x"]

\* The statements both denormalizations end with, each reading one attribute:
\* elif v > extent - margin: v = extent - margin (two reads of the extent),
\* for x and then y, and the two additions of the origin
EdgeRead(p, width, height, origin_x, origin_y, margin) ==
    CASE p.pc = "test_x" ->
           IF p.x > width - margin THEN [p EXCEPT !.pc = "set_x"] ELSE FailsafeY(p)
      [] p.pc = "set_x" -> FailsafeY([p EXCEPT !.x = width - margin])
      [] p.pc = "test_y" ->
           IF p.y > height - margin THEN [p EXCEPT !.pc = "set_y"]
           ELSE [p EXCEPT !.pc = "origin_x"]
      [] p.pc = "set_y" -> [p EXCEPT !.y = height - margin, !.pc = "origin_x"]
      [] p.pc = "origin_x" -> [p EXCEPT !.x = @ + origin_x, !.pc = "origin_y"]
      [] p.pc = "origin_y" -> [p EXCEPT !.y = @ + origin_y, !.pc = "done"]

\* CoordinateScaler.scale(x, y, prevent_failsafe=True), one read of the
\* scaler s at a time: round(x * self.scale_x), round(y * self.scale_y), the
\* two clamps, then the fail-safe tests and the origin
ScaleRead(s, p) ==
    CASE p.pc = "scale_x" -> [p EXCEPT !.x = ScaledAxis(Fin(p.x), s.scale_x), !.pc = "scale_y"]
      [] p.pc = "scale_y" -> [p EXCEPT !.y = ScaledAxis(Fin(p.y), s.scale_y), !.pc = "clamp_x"]
      [] p.pc = "clamp_x" -> [p EXCEPT !.x = ClampAxis(p.x, s.target_width), !.pc = "clamp_y"]
      [] p.pc = "clamp_y" -> FailsafeX([p EXCEPT !.y = ClampAxis(p.y, s.target_height)])
      [] OTHER -> EdgeRead(p, s.target_width, s.target_height, s.origin_x, s.origin_y, 2)

\* YdotoolActionHandler._denormalize_coords, one read of the handler h at a
\* time: int(x * self.screen_width / 1000), int(y * self.screen_height / 1000),
\* then the fail-safe tests and the origin
YdDenormalizeRead(h, p) ==
    CASE p.pc = "screen_x" -> [p EXCEPT !.x = (p.x * h.screen_width) \div 1000, !.pc = "screen_y"]
      [] p.pc = "screen_y" -> FailsafeX([p EXCEPT !.y = (p.y * h.screen_height) \div 1000])
      [] OTHER -> EdgeRead(p, h.screen_width, h.screen_height, h.origin_x, h.origin_y, 1)

\* The first statement of the denormalization of handler `which`
FirstRead(which) == IF which = "py" THEN "scale_x" ELSE "screen_x"

\* The attributes set_target_screen stores, in program order:
\* PyautoguiActionHandler through CoordinateScaler.set_target_size and
\* set_origin (after its own copies of the four values, which no method
\* reads), YdotoolActionHandler by two tuple assignments
StoredFields(which) ==
    IF which = "py"
    THEN <<"target_width", "target_height", "scale_x", "scale_y", "origin_x", "origin_y">>
    ELSE <<"screen_width", "screen_height", "origin_x", "origin_y">>

\* One store of CoordinateScaler.set_target_size / set_origin
ScalerStore(s, field, screen) ==
    CASE field = "target_width" -> [s EXCEPT !.target_width = screen.width]
      [] field = "target_height" -> [s EXCEPT !.target_height = screen.height]
      [] field = "scale_x" -> [s EXCEPT !.scale_x = <<screen.width, s.source_width>>]
      [] field = "scale_y" -> [s EXCEPT !.scale_y = <<screen.height, s.source_height>>]
      [] field = "origin_x" -> [s EXCEPT !.origin_x = screen.x]
      [] field = "origin_y" -> [s EXCEPT !.origin_y = screen.y]

\* One store of set_target_screen(screen) on handler h
Store(which, h, field, screen) ==
    IF which = "py" THEN [h EXCEPT !.coord_scaler = ScalerStore(@, field, screen)]
    ELSE CASE field = "screen_width" -> [h EXCEPT !.screen_width = screen.width]
           [] field = "screen_height" -> [h EXCEPT !.screen_height = screen.height]
           [] field = "origin_x" -> [h EXCEPT !.origin_x = screen.x]
           [] field = "origin_y" -> [h EXCEPT !.origin_y = screen.y]

\* set_target_screen(screen) from its first store to its last
RECURSIVE StoreAll(_, _, _, _)
StoreAll(which, h, fields, screen) ==
    IF fields = <<>> THEN h
    ELSE StoreAll(which, Store(which, h, Head(fields), screen), Tail(fields), screen)

\* No set_target_screen call is in progress
NoScreen == [width |-> 0, height |-> 0, x |-> 0, y |-> 0]
NotStoring == [screen |-> NoScreen, fields |-> <<>>]

\* A handler call in progress in its worker thread: the batch, the capslock
\* state at the call, the device calls sent and the capslock flag after each
\* action done so far, the repeats done of the action in hand (k), the
\* coordinate pair being denormalized (scaling) and the pairs finished
\* (points), and the device calls of the repeat in hand that are still to be
\* sent (pending). Of the caller's thread: the stores still to be made of a
\* set_target_screen call in progress on this handler (storing), and the
\* number of such calls made (retargets).
Handling(which, batch, before) ==
    [op |-> "handling", handler |-> which, batch |-> batch, before |-> before,
     raised |-> "none", calls |-> <<>>, trace |-> <<>>, k |-> 0,
     scaling |-> NotScaling, points |-> <<>>, pending |-> <<>>,
     storing |-> NotStoring, retargets |-> 0]

\* What a finished call leaves: st is the call in progress, m the capslock state
HandleResult(st, m) ==
    [op |-> "handle", handler |-> st.handler, batch |-> st.batch, before |-> st.before,
     raised |-> st.raised, calls |-> st.calls, trace |-> st.trace, after |-> m]

\* The call has no action left to execute: the batch is done or an action raised
HandleOver == Len(res.trace) = Len(res.batch) \/ res.raised # "none"

\* The action in hand
InHand(st) == st.batch[Len(st.trace) + 1]

\* PyautoguiActionHandler._execute_action runs _execute_single_action count
\* times; YdotoolActionHandler._execute_action runs once and hands the count
\* to the device
RepeatsOf(st) == IF st.handler = "py" THEN CountOf(InHand(st)) ELSE 1

\* One execution of the action in hand is over: the next repeat, or the next action
RepeatDone(st, flag) ==
    IF st.k + 1 >= RepeatsOf(st)
    THEN [st EXCEPT !.k = 0, !.trace = Append(@, flag)]
    ELSE [st EXCEPT !.k = @ + 1]

\* One execution of an action without coordinates, or with an argument that
\* does not parse: the capslock state has been read and changed as r says,
\* and r.calls are the device calls it will make
Begun(st, r) ==
    IF r.err # "none"
    THEN [st EXCEPT !.raised = r.err, !.trace = Append(@, r.caps.caps_enabled)]
    ELSE IF r.calls = <<>> THEN RepeatDone(st, r.caps.caps_enabled)
    ELSE [st EXCEPT !.pending = r.calls]

\* The i-th coordinate pair of the action in hand is to be denormalized
Pointing(st, i) ==
    [st EXCEPT !.scaling = Scaling(FirstRead(st.handler), RawPoint(InHand(st), i)[1],
                                   RawPoint(InHand(st), i)[2])]

\* The denormalization in hand has made one read and stands at p: with its
\* last read the pair is finished, and the next pair of the action begins
PointRead(st, p) ==
    IF p.pc # "done" THEN [st EXCEPT !.scaling = p]
    ELSE IF Len(st.points) + 1 < PointsOf(InHand(st))
    THEN Pointing([st EXCEPT !.points = Append(@, <<p.x, p.y>>)], Len(st.points) + 2)
    ELSE [st EXCEPT !.points = Append(@, <<p.x, p.y>>), !.scaling = NotScaling]

\* The pairs the worker computed, as scale() returns them
ScaledPoints(pts) == [i \in 1..Len(pts) |-> Returned(pts[i][1], pts[i][2])]

\* Every pair of the action in hand is denormalized: its device calls are next
Pointed(st, m) ==
    IF st.scaling.pc # "none" THEN st
    ELSE [st EXCEPT !.points = <<>>,
                    !.pending = IF st.handler = "py"
                                THEN PyHPointing(InHand(st), ScaledPoints(st.points), m).calls
                                ELSE YdPointing(InHand(st), st.points, m).calls]

\* The next device call is made
Sent(st, flag) ==
    IF Len(st.pending) = 1
    THEN RepeatDone([st EXCEPT !.calls = Append(@, st.pending[1]), !.pending = <<>>], flag)
    ELSE [st EXCEPT !.calls = Append(@, st.pending[1]), !.pending = Tail(@)]

\* The next ydotool process exits with a status other than 0: RuntimeError
SendFailed(st, flag) ==
    [st EXCEPT !.calls = Append(@, st.pending[1]), !.pending = <<>>,
               !.raised = "RuntimeError", !.trace = Append(@, flag)]

\* The worker of handler `which` is between two statements of a call
Running(which) == res.op = "handling" /\ res.handler = which

\* The worker is about to execute the action in hand, or its next repeat
AtAction(which) ==
    /\ Running(which) /\ ~HandleOver
    /\ res.pending = <<>> /\ res.scaling.pc = "none"

\* PyautoguiActionHandler()(batch): the call begins
PyHandleStart ==
    /\ res.op = "idle"
    /\ \E batch \in HandlerBatches : res' = Handling("py", batch, pyHandler.caps_manager)
    /\ UNCHANGED <<claudeConv, qwenConv, agent, scaler, capsMgr, toggles, pyConv, oagiConv, pyHandler, ydHandler>>

PyHandled(r) ==
    /\ pyHandler' = [pyHandler EXCEPT !.caps_manager = r.caps]
    /\ res' = Begun(res, r)

\* _execute_single_action begins one repeat of the action in hand: a pointing
\* action parses its argument and calls scale() for the first pair; any other
\* action reads and changes the capslock state
PyHandleStep ==
    /\ AtAction("py")
    /\ IF IsPointing(InHand(res)) /\ ~BadFormat(InHand(res))
       THEN res' = Pointing(res, 1) /\ UNCHANGED pyHandler
       ELSE PyHandled(PyHExecuteSingle(pyHandler, pyHandler.caps_manager, InHand(res)))
    /\ UNCHANGED <<claudeConv, qwenConv, agent, scaler, capsMgr, toggles, pyConv, oagiConv, ydHandler>>

\* scale() makes its next read of the scaler, which set_target_screen may be
\* writing in the caller's thread (there is no lock)
PyHandleRead ==
    /\ Running("py") /\ res.scaling.pc # "none"
    /\ res' = Pointed(PointRead(res, ScaleRead(pyHandler.coord_scaler, res.scaling)),
                      pyHandler.caps_manager)
    /\ UNCHANGED <<claudeConv, qwenConv, agent, scaler, capsMgr, toggles, pyConv, oagiConv, pyHandler, ydHandler>>

\* the next pyautogui call of the repeat in hand (a click follows its moveTo
\* after time.sleep(click_pre_delay))
PyHandleSend ==
    /\ Running("py") /\ res.pending # <<>>
    /\ res' = Sent(res, pyHandler.caps_manager.caps_enabled)
    /\ UNCHANGED <<claudeConv, qwenConv, agent, scaler, capsMgr, toggles, pyConv, oagiConv, pyHandler, ydHandler>>

\* the call returns, or re-raises the exception of the action that failed;
\* the caller sees it once it is not inside set_target_screen
PyHandleReturn ==
    /\ Running("py") /\ HandleOver /\ res.storing.fields = <<>>
    /\ res' = HandleResult(res, pyHandler.caps_manager)
    /\ UNCHANGED <<claudeConv, qwenConv, agent, scaler, capsMgr, toggles, pyConv, oagiConv, pyHandler, ydHandler>>

PyHandle ==
    PyHandleStart \/ PyHandleStep \/ PyHandleRead \/ PyHandleSend \/ PyHandleReturn

\* YdotoolActionHandler()(batch): the call begins
YdHandleStart ==
    /\ res.op = "idle"
    /\ \E batch \in HandlerBatches : res' = Handling("yd", batch, ydHandler.caps_manager)
    /\ UNCHANGED <<claudeConv, qwenConv, agent, scaler, capsMgr, toggles, pyConv, oagiConv, pyHandler, ydHandler>>

YdHandled(r) ==
    /\ ydHandler' = [ydHandler EXCEPT !.caps_manager = r.caps]
    /\ res' = Begun(res, r)

\* _execute_action begins the action in hand: a pointing action parses its
\* argument and calls _denormalize_coords for the first pair; any other
\* action reads and changes the capslock state
YdHandleStep ==
    /\ AtAction("yd")
    /\ IF IsPointing(InHand(res)) /\ ~BadFormat(InHand(res))
       THEN res' = Pointing(res, 1) /\ UNCHANGED ydHandler
       ELSE YdHandled(YdExecuteAction(ydHandler, ydHandler.caps_manager, InHand(res)))
    /\ UNCHANGED <<claudeConv, qwenConv, agent, scaler, capsMgr, toggles, pyConv, oagiConv, pyHandler>>

\* _denormalize_coords makes its next read of the screen size or origin,
\* which set_target_screen may be writing in the caller's thread
YdHandleRead ==
    /\ Running("yd") /\ res.scaling.pc # "none"
    /\ res' = Pointed(PointRead(res, YdDenormalizeRead(ydHandler, res.scaling)),
                      ydHandler.caps_manager)
    /\ UNCHANGED <<claudeConv, qwenConv, agent, scaler, capsMgr, toggles, pyConv, oagiConv, pyHandler, ydHandler>>

\* the next ydotool command of the action in hand: _run_ydotool waits for
\* the process and raises RuntimeError when it exits with another status than 0
YdHandleSend ==
    /\ Running("yd") /\ res.pending # <<>>
    /\ \/ res' = Sent(res, ydHandler.caps_manager.caps_enabled)
       \/ res' = SendFailed(res, ydHandler.caps_manager.caps_enabled)
    /\ UNCHANGED <<claudeConv, qwenConv, agent, scaler, capsMgr, toggles, pyConv, oagiConv, pyHandler, ydHandler>>

\* the call returns, or re-raises the exception of the action that failed
YdHandleReturn ==
    /\ Running("yd") /\ HandleOver /\ res.storing.fields = <<>>
    /\ res' = HandleResult(res, ydHandler.caps_manager)
    /\ UNCHANGED <<claudeConv, qwenConv, agent, scaler, capsMgr, toggles, pyConv, oagiConv, pyHandler, ydHandler>>

YdHandle ==
    YdHandleStart \/ YdHandleStep \/ YdHandleRead \/ YdHandleSend \/ YdHandleReturn

\* The caller's thread may use handler `which` between two calls, or while a
\* call of that handler runs in the worker thread and the caller is not
\* inside set_target_screen. (The handlers share no state: what the caller
\* does to the other handler in the meantime commutes with the running call
\* and is taken between calls.)
CallerFree(which) == res.op = "idle" \/ (Running(which) /\ res.storing.fields = <<>>)

\* PyautoguiActionHandler.reset()
PyHReset ==
    /\ CallerFree("py")
    /\ pyHandler' = [pyHandler EXCEPT !.caps_manager = reset(@)]
    /\ UNCHANGED <<res, claudeConv, qwenConv, agent, scaler, capsMgr, toggles, pyConv, oagiConv, ydHandler>>

\* YdotoolActionHandler.reset()
YdReset ==
    /\ CallerFree("yd")
    /\ ydHandler' = [ydHandler EXCEPT !.caps_manager = reset(@)]
    /\ UNCHANGED <<res, claudeConv, qwenConv, agent, scaler, capsMgr, toggles, pyConv, oagiConv, pyHandler>>

\* The caller has made the first store of set_target_screen(screen) while a
\* call of the handler runs
Retargeting(st, screen) ==
    [st EXCEPT !.storing = [screen |-> screen, fields |-> Tail(StoredFields(st.handler))],
               !.retargets = @ + 1]

\* The caller has made the next store of the set_target_screen in progress
Stored(st) ==
    IF Len(st.storing.fields) = 1 THEN [st EXCEPT !.storing = NotStoring]
    ELSE [st EXCEPT !.storing.fields = Tail(@)]

\* PyautoguiActionHandler.set_target_screen(screen): between two calls of the
\* handler from the first store to the last; while a call runs one store at
\* a time: the call begins with its first store, or goes on with its next
PyHSetTargetScreen ==
    /\ \/ /\ res.op = "idle"
          /\ \E screen \in TargetScreens :
               pyHandler' = StoreAll("py", pyHandler, StoredFields("py"), screen)
          /\ UNCHANGED res
       \/ /\ CallerFree("py") /\ Running("py") /\ res.retargets < MaxRetargets
          /\ \E screen \in TargetScreens :
               /\ pyHandler' = Store("py", pyHandler, Head(StoredFields("py")), screen)
               /\ res' = Retargeting(res, screen)
       \/ /\ Running("py") /\ res.storing.fields # <<>>
          /\ pyHandler' = Store("py", pyHandler, Head(res.storing.fields), res.storing.screen)
          /\ res' = Stored(res)
    /\ UNCHANGED <<claudeConv, qwenConv, agent, scaler, capsMgr, toggles, pyConv, oagiConv, ydHandler>>

\* YdotoolActionHandler.set_target_screen(screen), likewise
YdSetTargetScreen ==
    /\ \/ /\ res.op = "idle"
          /\ \E screen \in TargetScreens :
               ydHandler' = StoreAll("yd", ydHandler, StoredFields("yd"), screen)
          /\ UNCHANGED res
       \/ /\ CallerFree("yd") /\ Running("yd") /\ res.retargets < MaxRetargets
          /\ \E screen \in TargetScreens :
               /\ ydHandler' = Store("yd", ydHandler, Head(StoredFields("yd")), screen)
               /\ res' = Retargeting(res, screen)
       \/ /\ Running("yd") /\ res.storing.fields # <<>>
          /\ ydHandler' = Store("yd", ydHandler, Head(res.storing.fields), res.storing.screen)
          /\ res' = Stored(res)
    /\ UNCHANGED <<claudeConv, qwenConv, agent, scaler, capsMgr, toggles, pyConv, oagiConv, pyHandler>>

\* Both handlers built with one capslock mode
InitHandler ==
    \E m \in CapsModes : Construct("session", "session", "session", FALSE, m, m)

NextHandler ==
    \/ PyHandle \/ YdHandle
    \/ PyHReset \/ YdReset
    \/ PyHSetTargetScreen \/ YdSetTargetScreen
    \/ Discard

SpecHandler == InitHandler /\ [][NextHandler]_vars

\* C8: in session capslock mode, once a handler has executed a finish or a
\* fail action the capslock flag is disabled, whatever it was before.
C8_HandlerResetOnTerminal ==
    (res.op = "handle" /\ res.before.mode = "session") =>
        \A i \in 1..Len(res.trace) :
            (res.batch[i].type \in {"finish", "fail"}) => ~res.trace[i]

(***************************************************************************)
(* Output parser (utils/output_parser.py)                                  *)
(***************************************************************************)
\* Step(reason, actions, stop)
Step(reason, actions, stop) == [reason |-> reason, actions |-> actions, stop |-> stop]

ActionTypes ==
    {"click", "left_double", "left_triple", "right_single", "drag", "mouse_move",
     "left_click_drag", "press_click", "hotkey", "type", "scroll", "finish", "fail",
     "wait", "call_user"}

\* Outcome of parsing one fragment: an Action, nothing (skipped), or an exception
Parsed(action) == [k |-> "action", action |-> action]
Skipped == [k |-> "skip"]
Raises(e) == [k |-> "raise", e |-> e]

\* Action(type=..., argument=..., count=...): pydantic validates count >= 1
NewAction(type, argument, count) ==
    IF count < 1 THEN Raises("ValidationError") ELSE Parsed(Action(type, argument, count))

\* A JSON value of a tool call as json.loads returns it: k is "missing" (no
\* such member), "int", "inf" (a float too large for int()), "str", "list"
Missing == [k |-> "missing", v |-> 0, s |-> <<>>]
JInt(n) == [k |-> "int", v |-> n, s |-> <<>>]
JInf == [k |-> "inf", v |-> 0, s |-> <<>>]
JStr(t) == [k |-> "str", v |-> 0, s |-> <<t>>]
JList(seq) == [k |-> "list", v |-> 0, s |-> seq]

\* s.strip() and s.strip().lower() of the member strings of the model
Strip(tok) ==
    CASE tok = " Failure " -> "Failure"
      [] tok = " c" -> "c"
      [] OTHER -> tok

Lower(tok) ==
    CASE tok = "Failure" -> "failure"
      [] tok = "FAILURE" -> "failure"
      [] tok = "Terminate" -> "terminate"
      [] tok = "Right_Click" -> "right_click"
      [] tok = "UP" -> "up"
      [] OTHER -> tok

\* str(arguments.get(name, default)): the member's text, the decimal digits
\* of a number, the default where the member is missing; the repr of a list
\* with its elements left out
StrOr(j, default) ==
    CASE j.k = "str" -> j.s[1]
      [] j.k = "int" -> ToString(j.v)
      [] j.k = "inf" -> "inf"
      [] j.k = "list" -> "[...]"
      [] OTHER -> default

\* int(s.strip()) of a repeat count: [ok, v]
IntOf(tok) ==
    CASE tok = "0" -> [ok |-> TRUE, v |-> 0]
      [] tok = "2" -> [ok |-> TRUE, v |-> 2]
      [] tok = "3" -> [ok |-> TRUE, v |-> 3]
      [] tok = "-1" -> [ok |-> TRUE, v |-> -1]
      [] OTHER -> [ok |-> FALSE, v |-> 1]


\* "+".join(keys)
RECURSIVE PlusJoin(_)
PlusJoin(keys) ==
    IF keys = <<>> THEN ""
    ELSE IF Len(keys) = 1 THEN keys[1]
    ELSE keys[1] \o "+" \o PlusJoin(Tail(keys))

\* re.split(r"[+,]", raw_keys) of the key strings of the model
SplitKeys(tok) ==
    CASE tok = "ctrl+c" -> <<"ctrl", "c">>
      [] tok = "ctrl, c" -> <<"ctrl", " c">>
      [] tok = "+" -> <<"", "">>
      [] OTHER -> <<tok>>

\* The fields of a one-field argument string ("" has none)
FieldsOf(tok) == IF tok = "" THEN <<>> ELSE <<tok>>

NonEmpty(tok) == tok # ""

StripEach(keys) == SelectSeq([i \in 1..Len(keys) |-> Strip(keys[i])], NonEmpty)

\* _extract_keys: a list of key strings, or one string split at + and ,
extract_keys(j) ==
    CASE j.k = "list" -> StripEach(j.s)
      [] j.k = "str" -> StripEach(SplitKeys(j.s[1]))
      [] OTHER -> <<>>

\* int(float(e)) of one member of a coordinate list: [k |-> "ok", v], "none"
\* where TypeError or ValueError is raised, "raise" for the OverflowError of
\* int(float("inf"))
IntOfFloat(e) ==
    CASE e.k = "int" -> [k |-> "ok", v |-> e.v]
      [] e.k = "inf" -> [k |-> "raise", v |-> 0]
      [] e.k = "str" ->
           (CASE FloatOf(e.s[1]).k = "fin" -> [k |-> "ok", v |-> FloatOf(e.s[1]).v]
              [] FloatOf(e.s[1]).k \in {"inf", "ninf"} -> [k |-> "raise", v |-> 0]
              [] OTHER -> [k |-> "none", v |-> 0])
      [] OTHER -> [k |-> "none", v |-> 0]

\* _extract_coords: [k |-> "ok", x, y], "none", or "raise"; x is converted
\* before y, and the first conversion that fails decides
NoCoords == [k |-> "none", x |-> 0, y |-> 0]
extract_coords(j) ==
    IF j.k # "list" \/ Len(j.s) < 2 THEN NoCoords
    ELSE IF IntOfFloat(j.s[1]).k # "ok" THEN [k |-> IntOfFloat(j.s[1]).k, x |-> 0, y |-> 0]
    ELSE IF IntOfFloat(j.s[2]).k # "ok" THEN [k |-> IntOfFloat(j.s[2]).k, x |-> 0, y |-> 0]
    ELSE [k |-> "ok", x |-> IntOfFloat(j.s[1]).v, y |-> IntOfFloat(j.s[2]).v]

\* _coerce_positive_int(value, default=1): -1 stands for the OverflowError of int(inf)
coerce_positive_int(j) ==
    CASE j.k = "int" -> Max(j.v, 1)
      [] j.k = "inf" -> -1
      [] j.k = "str" /\ IntOf(j.s[1]).ok -> Max(IntOf(j.s[1]).v, 1)
      [] OTHER -> 1

\* _coerce_float(value, default) as str() prints it
coerce_float(j, default) ==
    CASE j.k = "int" -> ToString(j.v) \o ".0"
      [] j.k = "inf" -> "inf"
      [] j.k = "str" /\ FloatOf(j.s[1]) # FloatErr -> FloatRepr(j.s[1])
      [] OTHER -> default

Abs(n) == IF n < 0 THEN -n ELSE n

\* _parse_scroll_direction_and_count
ScrollDirectionAndCount(direction, signed_count) ==
    [direction |-> IF direction \in {"up", "down"} THEN direction
                   ELSE IF signed_count < 0 THEN "down" ELSE "up",
     count |-> Max(Abs(signed_count), 1)]

\* _parse_scroll_direction_and_count: a count that is a number goes through
\* int(), anything else counts as 1; count -1 stands for the OverflowError of
\* int(inf)
parse_scroll_direction_and_count(arguments) ==
    IF arguments.count.k = "inf" THEN [direction |-> "", count |-> -1]
    ELSE ScrollDirectionAndCount(Lower(Strip(StrOr(arguments.direction, ""))),
                                 IF arguments.count.k = "int" THEN arguments.count.v
                                 ELSE 1)

TerminalType_case_sensitive(status) ==
    IF status = "failure" THEN "fail" ELSE "finish"

\* terminate: FAIL when status.strip().lower() == "failure", FINISH otherwise
TerminalType(status) ==
    IF Lower(Strip(status)) = "failure" THEN "fail" ELSE "finish"

\* The comma-separated fields of json.dumps of a list of strings, after `lead`
RECURSIVE JsonStrings(_, _)
JsonStrings(lead, keys) ==
    IF keys = <<>> THEN <<lead \o "]">>
    ELSE IF Len(keys) = 1 THEN <<lead \o "\"" \o keys[1] \o "\"]">>
    ELSE <<lead \o "\"" \o keys[1] \o "\"">> \o JsonStrings("", Tail(keys))

\* json.dumps({"keys": ..., "click_type": ..., "coordinate": [x, y]},
\* separators=(",", ":")), as its comma-separated fields
PressClickJson(keys, click_type, xy) ==
    JsonStrings("{\"keys\":[", keys)
        \o <<"\"click_type\":\"" \o click_type \o "\"",
             "\"coordinate\":[" \o xy[1], xy[2] \o "]}">>

ClickTypes ==
    [left_click |-> "click", right_click |-> "right_single",
     double_click |-> "left_double", triple_click |-> "left_triple"]

\* _parse_qwen3_tool_call, once the arguments object is known: the action it
\* names, from its converted arguments
ParseNamed(arguments, action_name, count, coords, keys, xy) ==
    IF action_name = "" THEN Skipped
    ELSE IF count = -1 THEN Raises("OverflowError")
    ELSE CASE action_name = "key" ->
                IF keys = <<>> THEN Skipped
                ELSE NewAction("hotkey", <<PlusJoin(keys)>>, count)
           [] action_name = "type" ->
                NewAction("type", FieldsOf(StrOr(arguments.text, "")), count)
           [] action_name \in {"mouse_move", "left_click_drag"} \cup DOMAIN ClickTypes ->
                IF coords.k = "raise" THEN Raises("OverflowError")
                ELSE IF coords.k = "none" THEN Skipped
                ELSE NewAction(IF action_name \in DOMAIN ClickTypes
                               THEN ClickTypes[action_name] ELSE action_name, xy, count)
           [] action_name = "press_click" ->
                IF coords.k = "raise" THEN Raises("OverflowError")
                ELSE IF coords.k = "none" THEN Skipped
                ELSE IF Lower(Strip(StrOr(arguments.click_type, ""))) \notin DOMAIN ClickTypes
                     THEN Skipped
                ELSE NewAction("press_click",
                               PressClickJson(keys,
                                              Lower(Strip(StrOr(arguments.click_type, ""))),
                                              xy),
                               count)
           [] action_name = "scroll" ->
                IF coords.k = "raise" THEN Raises("OverflowError")
                ELSE IF parse_scroll_direction_and_count(arguments).count = -1
                     THEN Raises("OverflowError")
                ELSE NewAction("scroll",
                       (IF coords.k = "none" THEN <<"500", "500">> ELSE xy)
                           \o <<parse_scroll_direction_and_count(arguments).direction>>,
                       parse_scroll_direction_and_count(arguments).count)
           [] action_name = "wait" ->
                NewAction("wait", <<coerce_float(arguments.time, "1.0")>>, 1)
           [] action_name = "terminate" ->
                NewAction(TerminalType(StrOr(arguments.status, "success")), <<>>, 1)
           [] OTHER -> Skipped

ParseArguments(arguments, coords) ==
    ParseNamed(arguments, Lower(Strip(StrOr(arguments.action, ""))),
               coerce_positive_int(arguments.count), coords,
               extract_keys(arguments.keys), <<ToString(coords.x), ToString(coords.y)>>)

\* _parse_qwen3_tool_call on the decoded object of one <tool_call> block
parse_qwen3_tool_call(obj) ==
    IF Strip(obj.name) \notin {"", "computer_use"} THEN Skipped
    ELSE IF obj.args \notin {"object", "string_object"} THEN Skipped
    ELSE ParseArguments(obj.arguments, extract_coords(obj.arguments.coordinate))

\* One <tool_call> block: _parse_tool_call_json, then _parse_qwen3_tool_call
ParseToolCall(block) ==
    IF block.json # "object" THEN Skipped ELSE parse_qwen3_tool_call(block)

\* _parse_action on one fragment of the action block; the fragment is given by
\* whether (\w+)\((.*)\) matches, the name matched, and the comma-separated
\* fields of the text between the parentheses
parse_action(text) ==
    LET action_type == Lower(text.name)
        args == text.fields
        n == Len(args)
    IN  IF ~text.matches THEN Skipped
        ELSE IF action_type \notin ActionTypes THEN Skipped
        ELSE CASE action_type = "hotkey" ->
                    IF n >= 2 /\ Strip(args[n]) # ""
                    THEN NewAction("hotkey", SubSeq(args, 1, n - 1),
                                   IF IntOf(args[n]).ok THEN IntOf(args[n]).v ELSE 1)
                    ELSE NewAction("hotkey", args, 1)
               [] action_type = "scroll" ->
                    IF n >= 4
                    THEN NewAction("scroll", SubSeq(args, 1, 3),
                                   IF IntOf(args[4]).ok THEN IntOf(args[4]).v ELSE 1)
                    ELSE NewAction("scroll", args, 1)
               [] OTHER -> NewAction(action_type, args, 1)

\* The fragments in order: the Actions of those that parse, or the first exception
RECURSIVE ParseAll(_, _, _, _)
ParseAll(which, frags, i, actions) ==
    IF i > Len(frags) THEN [raised |-> "none", actions |-> actions]
    ELSE LET r == IF which = "qwen3" THEN ParseToolCall(frags[i]) ELSE parse_action(frags[i])
         IN  CASE r.k = "raise" -> [raised |-> r.e, actions |-> actions]
               [] r.k = "skip" -> ParseAll(which, frags, i + 1, actions)
               [] OTHER -> ParseAll(which, frags, i + 1, Append(actions, r.action))

HasTerminal(actions) == \E i \in 1..Len(actions) : actions[i].type \in {"finish", "fail"}

Returns(step) == [raised |-> "none", step |-> step]
Throws(e) == [raised |-> e]

\* _parse_qwen3_output
parse_qwen3_output(raw) ==
    LET reason == IF raw.think # "" THEN raw.think ELSE raw.summary
        r == ParseAll("qwen3", raw.tool_calls, 1, <<>>)
    IN  IF r.raised # "none" THEN Throws(r.raised)
        ELSE Returns(Step(reason, r.actions, HasTerminal(r.actions)))

\* _parse_legacy_output
parse_legacy_output(raw) ==
    LET reason == IF raw.legacy_think = None THEN "" ELSE raw.legacy_think
        r == ParseAll("legacy", IF raw.has_action_block THEN raw.action_texts ELSE <<>>,
                      1, <<>>)
    IN  IF r.raised # "none" THEN Throws(r.raised)
        ELSE Returns(Step(reason, r.actions, HasTerminal(r.actions)))

HasContent(q) == q.raised = "none" /\ (q.step.actions # <<>> \/ q.step.reason # "")


\* parse_raw_output with the auto-mode tests in the other order: tagged
\* markers are looked at before the tool-call grammar is tried
parse_raw_output_tagged_first(raw, parser_mode) ==
    LET q == parse_qwen3_output(raw)
        l == parse_legacy_output(raw)
    IN  CASE parser_mode = "qwen3" -> q
          [] parser_mode = "legacy" -> l
          [] parser_mode = "auto" ->
               IF raw.has_action_block \/ raw.legacy_think # None THEN l
               ELSE IF q.raised # "none" \/ HasContent(q) THEN q
               ELSE l
          [] OTHER -> Throws("ValueError")

\* parse_raw_output(raw_output, parser_mode)
parse_raw_output(raw, parser_mode) ==
    LET q == parse_qwen3_output(raw)
        l == parse_legacy_output(raw)
    IN  CASE parser_mode = "qwen3" -> q
          [] parser_mode = "legacy" -> l
          [] parser_mode = "auto" ->
               IF raw.tool_calls # <<>> /\ q.raised # "none" THEN q
               ELSE IF raw.tool_calls # <<>> /\ HasContent(q) THEN q
               ELSE IF raw.has_action_block \/ raw.legacy_think # None THEN l
               ELSE IF q.raised # "none" \/ HasContent(q) THEN q
               ELSE l
          [] OTHER -> Throws("ValueError")

(***************************************************************************)
(* The output parser in use                                                *)
(***************************************************************************)
\* The members of a tool call's "arguments" object
Arguments(action, coordinate, keys, text, status, count, direction) ==
    [action |-> action, coordinate |-> coordinate, keys |-> keys, text |-> text,
     status |-> status, count |-> count, direction |-> direction,
     time |-> Missing, click_type |-> Missing]

NoArguments == Arguments(Missing, Missing, Missing, Missing, Missing, Missing, Missing)

\* A <tool_call> block whose content is a JSON object with these arguments
ToolCall(arguments) ==
    [json |-> "object", name |-> "computer_use", args |-> "object", arguments |-> arguments]

Act(name) == [NoArguments EXCEPT !.action = JStr(name)]
At(x, y) == JList(<<JInt(x), JInt(y)>>)

\* Tool calls whose arguments are not of the documented JSON type and are
\* coerced: numbers as strings, keys as one string, a number for text or time
CoercedBlocks ==
    {ToolCall([Act("left_click") EXCEPT !.coordinate = JList(<<JStr("500"), JInt(300)>>),
                                        !.count = JStr("3")]),
     ToolCall([Act("left_click") EXCEPT !.coordinate = JList(<<JStr("abc"), JInf>>)]),
     ToolCall([Act("press_click") EXCEPT !.coordinate = At(500, 300),
                                         !.keys = JList(<<"ctrl">>),
                                         !.click_type = JStr("left_click")]),
     ToolCall([Act("key") EXCEPT !.keys = JStr("ctrl+c")]),
     ToolCall([Act("key") EXCEPT !.keys = JStr("+")]),
     ToolCall([Act("wait") EXCEPT !.time = JInt(2)]),
     ToolCall([Act("type") EXCEPT !.text = JInt(3)])}

\* The documented tool calls, well-formed and not
ToolCallBlocks ==
    {ToolCall([Act("left_click") EXCEPT !.coordinate = At(500, 300), !.count = c]) :
        c \in {Missing, JInt(0), JInt(MaxCount), JInf}}
    \cup {ToolCall([Act("terminate") EXCEPT !.status = st]) :
        st \in {Missing, JStr("success"), JStr("failure"), JStr(" Failure "),
                JStr("FAILURE"), JStr("failed")}}
    \cup {ToolCall(Act("left_click")),
          ToolCall([Act("double_click") EXCEPT !.coordinate = JList(<<JInf, JInt(300)>>)]),
          ToolCall([Act("key") EXCEPT !.keys = JList(<<"ctrl", " c">>)]),
          ToolCall(Act("key")),
          ToolCall([Act("type") EXCEPT !.text = JStr("abc")]),
          ToolCall([Act("scroll") EXCEPT !.count = JInt(-2)]),
          ToolCall(Act("wait")),
          ToolCall(Act("Terminate")),
          ToolCall(Act("screenshot")),
          ToolCall(NoArguments),
          [ToolCall(Act("terminate")) EXCEPT !.json = "invalid"],
          [ToolCall(Act("terminate")) EXCEPT !.name = "other_tool"],
          [ToolCall(Act("terminate")) EXCEPT !.args = "missing"]}

\* A fragment of the action block: name(fields)
Call(name, fields) == [matches |-> TRUE, name |-> name, fields |-> fields]

ActionTexts ==
    {Call("hotkey", <<"ctrl", c>>) : c \in {" c", "0", "-1", "2"}}
    \cup {Call("scroll", <<"500", "300", "up">> \o c) : c \in {<<>>, <<"0">>, <<"3">>}}
    \cup {Call("click", <<"500", "300">>),
          Call("hotkey", <<"CapsLock">>),
          Call("type", <<"abc">>),
          Call("drag", <<"100", "100", "500", "300">>),
          Call("wait", <<>>),
          Call("finish", <<>>),
          Call("fail", <<>>),
          Call("jump", <<"500", "300">>),
          [matches |-> FALSE, name |-> "", fields |-> <<>>]}

SeqsUpTo(S, n) == UNION {[1..k -> S] : k \in 0..n}

RawOutput(think, summary, tool_calls, legacy_think, has_action_block, action_texts) ==
    [think |-> think, summary |-> summary, tool_calls |-> tool_calls,
     legacy_think |-> legacy_think, has_action_block |-> has_action_block,
     action_texts |-> action_texts]

\* Raw model outputs with up to n blocks: tool-call outputs, tagged outputs,
\* and outputs that mix one block of each grammar
RawOutputs(n) ==
    {RawOutput(th, su, tc, None, FALSE, <<>>) :
        th \in {"", "plan"}, su \in {"", "click the button"},
        tc \in SeqsUpTo(ToolCallBlocks, n) \cup [1..1 -> CoercedBlocks]}
    \cup {RawOutput("", "", <<>>, lt, TRUE, at) :
        lt \in {None, "reason"}, at \in SeqsUpTo(ActionTexts, n)}
    \cup {RawOutput("", su, tc, lt, ab, at) :
        su \in {"", "click the button"}, tc \in SeqsUpTo(ToolCallBlocks, 1),
        lt \in {None, "", "reason"}, ab \in BOOLEAN, at \in SeqsUpTo(ActionTexts, 1)}

ParserModes == {"qwen3", "legacy", "auto"}

\* parse_raw_output(raw_output, parser_mode)
Parse ==
    /\ res.op = "idle"
    /\ \E raw \in RawOutputs(MaxFragments), mode \in ParserModes :
         res' = [op |-> "parse", mode |-> mode, raw |-> raw]
                    @@ parse_raw_output(raw, mode)
    /\ UNCHANGED <<claudeConv, qwenConv, agent, scaler, capsMgr, toggles, pyConv, oagiConv, pyHandler, ydHandler>>

NextParse == Parse \/ Discard

SpecParse == Init /\ [][NextParse]_vars

ReturnedStep == res.op = "parse" /\ res.raised = "none"

\* A well-formed terminate tool call
IsTerminate(block) ==
    /\ block.json = "object" /\ block.name = "computer_use" /\ block.args = "object"
    /\ block.arguments.action = JStr("terminate")

\* The status texts of the model that read "failure" once trimmed and put in
\* lower case
FailureStatuses == {JStr("failure"), JStr(" Failure "), JStr("FAILURE")}

\* The terminal actions of the Step are those of its terminate tool calls,
\* fail for the calls with a status in `failing` and finish for the others
TerminatesAs(failing) ==
    (res.mode = "qwen3"
     /\ \A i \in 1..Len(res.raw.tool_calls) : IsTerminate(res.raw.tool_calls[i]))
    => /\ Len(res.step.actions) = Len(res.raw.tool_calls)
       /\ \A i \in 1..Len(res.raw.tool_calls) :
            res.step.actions[i].type =
                IF res.raw.tool_calls[i].arguments.status \in failing
                THEN "fail" ELSE "finish"

StopIffTerminal ==
    res.step.stop <=>
        (\E i \in 1..Len(res.step.actions) :
             res.step.actions[i].type \in {"finish", "fail"})

\* C9 as stated: stop is true iff the actions contain a finish or fail
\* action, and a terminate tool call yields fail iff its status is "failure"
\* and finish otherwise.
C9_AsStated ==
    ReturnedStep => (StopIffTerminal /\ TerminatesAs({JStr("failure")}))

\* C9 (amended): every Step parse_raw_output returns, in every mode, has stop
\* true iff its actions contain a finish or fail action; a terminate tool
\* call yields fail iff its status, with surrounding whitespace removed and
\* in lower case, is "failure" (so " Failure " and "FAILURE" fail too), and
\* finish otherwise.
C9_StopIffTerminal ==
    ReturnedStep => (StopIffTerminal /\ TerminatesAs(FailureStatuses))

C9_Witness ==
    /\ ReturnedStep
    /\ res.mode = "qwen3"
    /\ Len(res.raw.tool_calls) = 2
    /\ res.raw.tool_calls[1].arguments.status = JStr(" Failure ")
    /\ res.raw.tool_calls[2].arguments.status = JStr("success")
    /\ res.step.stop
    /\ res.step.actions[1].type = "fail"
    /\ res.step.actions[2].type = "finish"

\* C10: parse_raw_output never raises, whatever the raw text and the mode:
\* malformed fragments (among them a repeat count of 0 or below) are skipped.
C10_ParseNeverRaises == res.op = "parse" => res.raised = "none"


\* "<tool_call>" in raw_output
HasToolCallMarkers(raw) == raw.tool_calls # <<>>

\* "<|action_start|>" in raw_output or "<|think_start|>" in raw_output
HasTaggedMarkers(raw) == raw.has_action_block \/ raw.legacy_think # None

Productive(step) == step.reason # "" \/ step.actions # <<>>

\* The Step auto mode is said to return, given the Step q of the tool-call
\* grammar and the Step l of the tagged grammar
AutoChoice(raw, q, l) ==
    IF HasToolCallMarkers(raw) /\ Productive(q) THEN q
    ELSE IF HasTaggedMarkers(raw) THEN l
    ELSE IF Productive(q) THEN q
    ELSE l

BothGrammarsReturn(raw) ==
    /\ parse_qwen3_output(raw).raised = "none"
    /\ parse_legacy_output(raw).raised = "none"

AutoParsed == res.op = "parse" /\ res.mode = "auto" /\ BothGrammarsReturn(res.raw)

\* C11: in auto mode the parser returns the tool-call-grammar Step if tool-call
\* markers are present and that Step has a non-empty reason or non-empty
\* actions; otherwise the tagged-grammar Step if tagged markers are present;
\* otherwise the tool-call-grammar Step if it is productive; otherwise the
\* tagged-grammar Step.
C11_AutoModeSelection ==
    AutoParsed =>
        /\ res.raised = "none"
        /\ res.step = AutoChoice(res.raw, parse_qwen3_output(res.raw).step,
                                 parse_legacy_output(res.raw).step)

\* Both kinds of markers present and a productive tool call: the tool-call
\* Step is returned although the tagged grammar has actions of its own
C11_Witness ==
    /\ AutoParsed
    /\ HasToolCallMarkers(res.raw) /\ HasTaggedMarkers(res.raw)
    /\ res.raw.action_texts # <<>> /\ res.raw.has_action_block
    /\ parse_legacy_output(res.raw).step.actions # <<>>
    /\ parse_qwen3_output(res.raw).step.actions # <<>>
    /\ res.step = parse_qwen3_output(res.raw).step
    /\ res.step # parse_legacy_output(res.raw).step

\* The tool-call grammar yields a reason taken from the summary line and no
\* action, and tagged markers are present as well
ReasonOnlyToolCall(raw) ==
    /\ HasToolCallMarkers(raw) /\ HasTaggedMarkers(raw)
    /\ raw.think = "" /\ raw.summary # ""
    /\ parse_qwen3_output(raw).step.actions = <<>>

\* C12: in auto mode, when the tool-call block is malformed so that the
\* tool-call grammar yields only a reason (from the summary line) and no
\* actions, and tagged markers are present, the parser returns the
\* tagged-grammar Step, with the tagged reasoning and the tagged actions.
C12_NoEarlyReturnOnReasonOnly ==
    (AutoParsed /\ ReasonOnlyToolCall(res.raw)) =>
        /\ res.raised = "none"
        /\ res.step = parse_legacy_output(res.raw).step

\* C13: in explicit qwen3 mode, input that has tagged markers and no tool-call
\* payload is parsed with the tagged grammar: the returned Step carries the
\* tagged reasoning and the tagged actions.
C13_Qwen3FallsBackToTagged ==
    (/\ res.op = "parse" /\ res.mode = "qwen3"
     /\ BothGrammarsReturn(res.raw)
     /\ ~HasToolCallMarkers(res.raw) /\ HasTaggedMarkers(res.raw)) =>
        /\ res.raised = "none"
        /\ res.step = parse_legacy_output(res.raw).step


(***************************************************************************)
(* _split_actions: the action block as a sequence of characters            *)
(***************************************************************************)
MaxBlockLen == 5

Chars == {"(", ")", "&", " ", "a", "b"}

\* str.strip() on a sequence of characters
RECURSIVE StripChars(_)
StripChars(s) ==
    IF s = <<>> THEN s
    ELSE IF Head(s) = " " THEN StripChars(Tail(s))
    ELSE IF s[Len(s)] = " " THEN StripChars(SubSeq(s, 1, Len(s) - 1))
    ELSE s

\* action_str = "".join(current_action).strip(); if action_str: actions.append(action_str)
AppendAction(actions, action_str) ==
    IF action_str # <<>> THEN Append(actions, action_str) ELSE actions

\* The pieces of the block between the positions in cuts, in order
RECURSIVE CutAt(_, _, _, _)
CutAt(block, cuts, from, i) ==
    IF i > Len(block) THEN <<SubSeq(block, from, Len(block))>>
    ELSE IF i \in cuts
         THEN <<SubSeq(block, from, i - 1)>> \o CutAt(block, cuts, i + 1, i + 1)
         ELSE CutAt(block, cuts, from, i + 1)

RECURSIVE StripAll(_, _, _)
StripAll(pieces, i, actions) ==
    IF i > Len(pieces) THEN actions
    ELSE StripAll(pieces, i + 1, AppendAction(actions, StripChars(pieces[i])))

\* A splitter that cuts at every '&', whatever the nesting
split_actions_any_depth(action_block) ==
    StripAll(CutAt(action_block, {i \in 1..Len(action_block) : action_block[i] = "&"},
                   1, 1), 1, <<>>)

\* The loop of _split_actions from character i on
RECURSIVE SplitLoop(_, _, _, _, _)
SplitLoop(action_block, i, actions, current_action, paren_level) ==
    IF i > Len(action_block)
    THEN AppendAction(actions, StripChars(current_action))
    ELSE CASE action_block[i] = "(" ->
                SplitLoop(action_block, i + 1, actions,
                          Append(current_action, "("), paren_level + 1)
           [] action_block[i] = ")" ->
                SplitLoop(action_block, i + 1, actions,
                          Append(current_action, ")"), paren_level - 1)
           [] action_block[i] = "&" /\ paren_level = 0 ->
                SplitLoop(action_block, i + 1,
                          AppendAction(actions, StripChars(current_action)),
                          <<>>, paren_level)
           [] OTHER ->
                SplitLoop(action_block, i + 1, actions,
                          Append(current_action, action_block[i]), paren_level)

\* _split_actions(action_block)
split_actions(action_block) == SplitLoop(action_block, 1, <<>>, <<>>, 0)

ActionBlocks == UNION {[1..n -> Chars] : n \in 0..MaxBlockLen}

SplitActions ==
    /\ res.op = "idle"
    /\ \E block \in ActionBlocks :
         res' = [op |-> "split", block |-> block, out |-> split_actions(block)]
    /\ UNCHANGED <<claudeConv, qwenConv, agent, scaler, capsMgr, toggles, pyConv, oagiConv, pyHandler, ydHandler>>

NextSplit == SplitActions \/ Discard

SpecSplit == Init /\ [][NextSplit]_vars

\* Parenthesis depth of position i: the '(' before it minus the ')' before it
Depth(block, i) ==
    Cardinality({j \in 1..(i - 1) : block[j] = "("})
        - Cardinality({j \in 1..(i - 1) : block[j] = ")"})

TopLevelAmpersands(block) ==
    {i \in 1..Len(block) : block[i] = "&" /\ Depth(block, i) = 0}

IsTrimmed(s) == s # <<>> /\ Head(s) # " " /\ s[Len(s)] # " "

\* C14: _split_actions splits the block exactly at each '&' at parenthesis
\* depth 0 (an '&' inside parentheses never splits); the fragments are the
\* pieces between those positions in input order, trimmed, the empty ones
\* dropped.
C14_SplitAtDepthZero ==
    res.op = "split" =>
        /\ res.out = StripAll(CutAt(res.block, TopLevelAmpersands(res.block), 1, 1),
                              1, <<>>)
        /\ \A k \in 1..Len(res.out) : IsTrimmed(res.out[k])

\* The shape of type(func(a, b)) & click(100, 200): a nested '&' that does not
\* split and a top-level one that does, giving exactly two fragments
C14_Witness ==
    /\ res.op = "split"
    /\ res.block = <<"(", "&", ")", "&", "a">>
    /\ res.out = << <<"(", "&", ")">>, <<"a">> >>


\* The pointer actions the tool-call grammar emits besides the click family
PointerTypes == {"mouse_move", "left_click_drag", "press_click"}

Entry(cmd, is_last) == [cmd |-> cmd, is_last |-> is_last]

\* What the pointer action is said to become, p being the scaled point
PointerCommands(action, p) ==
    CASE action.type = "mouse_move" ->
           <<Entry(Cmd("pyautogui.moveTo", <<p.x, p.y>>, <<>>), TRUE)>>
      [] action.type = "left_click_drag" ->
           <<Entry(Cmd("pyautogui.dragTo", <<p.x, p.y>>, <<drag_duration, "left">>), TRUE)>>
      [] OTHER ->
           <<Entry(Cmd("pyautogui.keyDown", <<>>, <<"ctrl">>), FALSE),
             Entry(Cmd("pyautogui.click", <<p.x, p.y>>, <<>>), FALSE),
             Entry(Cmd("pyautogui.keyUp", <<>>, <<"ctrl">>), TRUE)>>

PointerPoint(action) ==
    CASE action.type = "mouse_move" -> PyDenormalizeCoords(Fin(500), Fin(300))
      [] action.type = "left_click_drag" -> PyDenormalizeCoords(Fin(800), Fin(600))
      [] OTHER -> PyDenormalizeCoords(Fin(500), Fin(300))

\* C15: PyautoguiActionConvertor converts every pointer action the parser can
\* emit: mouse_move becomes one moveTo at the scaled point, left_click_drag one
\* dragTo(..., button='left') at the scaled point, press_click keyDown, the
\* click at the scaled point, keyUp, with is_last only on the final command.
C15_PointerActionsConvert ==
    (/\ res.op = "convert" /\ res.conv = "py"
     /\ Len(res.batch) = 1 /\ res.batch[1].type \in PointerTypes) =>
        /\ res.raised = "none"
        /\ res.out = PointerCommands(res.batch[1], PointerPoint(res.batch[1]))


(***************************************************************************)
(* action_string_to_step (converters/base.py and                           *)
(* converters/pyautogui_action_converter.py)                               *)
(***************************************************************************)
\* A command string: a body without surrounding whitespace, with or without
\* whitespace before and after it
Command(lead, body, trail) == [lead |-> lead, body |-> body, trail |-> trail]

CommandBodies ==
    {"", "DONE", "done", "Fail", "FAIL", "fail", "WAIT(5)", "wait(0.5)", "WAIT(.5)", "WAIT(-1.0)",
     "WAIT(5", "WAIT(1e-05)", "pyautogui.click(x=100, y=200)",
     "PynputController().type('hello')", "_smart_paste('hello')",
     "echo pyautogui", "import PyAutoGUI", "ls -la", "DONE now"}

Commands == {Command(l, b, t) : l \in BOOLEAN, b \in CommandBodies, t \in BOOLEAN}

\* str(action).strip()
StripCommand(c) == Command(FALSE, c.body, FALSE)

\* action_str.upper() in ["DONE", "FAIL"]
IsMarker(action_str) ==
    /\ ~action_str.lead /\ ~action_str.trail
    /\ action_str.body \in {"DONE", "done", "FAIL", "fail", "Fail"}

\* re.match(r"^WAIT\((?P<sec>[0-9]*\.?[0-9]+)\)$", action_str, re.IGNORECASE):
\* repr of float(sec), or None without a match
WaitMatch(action_str) ==
    IF action_str.lead \/ action_str.trail THEN None
    ELSE CASE action_str.body \in {"WAIT(5)", "WAIT(5.0)"} -> "5.0"
           [] action_str.body \in {"wait(0.5)", "WAIT(.5)"} -> "0.5"
           [] action_str.body = "WAIT(0.0)" -> "0.0"
           [] action_str.body = "WAIT(1.0)" -> "1.0"
           [] action_str.body = "WAIT(2.0)" -> "2.0"
           [] action_str.body = "WAIT(2.5)" -> "2.5"
           [] action_str.body = "WAIT(500)" -> "500.0"
           [] OTHER -> None

\* The pyautogui calls the converters emit
PyautoguiFns ==
    {"pyautogui.click", "pyautogui.doubleClick", "pyautogui.tripleClick",
     "pyautogui.rightClick", "pyautogui.moveTo", "pyautogui.dragTo",
     "pyautogui.scroll", "pyautogui.hotkey", "pyautogui.keyDown", "pyautogui.keyUp",
     "pyautogui.typewrite"}

\* The text of a call whose arguments are left out
CallText(fn) == fn \o "(...)"

\* needle in action_str.lower()
ContainsLower(needle, action_str) ==
    CASE needle = "pyautogui" ->
           action_str.body \in {"pyautogui.click(x=100, y=200)", "echo pyautogui",
                                "import PyAutoGUI"}
                                   \cup {CallText(fn) : fn \in PyautoguiFns}
      [] needle = "pynputcontroller" ->
           action_str.body \in {"PynputController().type('hello')",
                                CallText("PynputController().type")}
      [] needle = "_smart_paste" ->
           action_str.body \in {"_smart_paste('hello')", CallText("_smart_paste")}
      [] OTHER -> FALSE

SleepStep(seconds) == [type |-> "sleep", seconds |-> seconds]
PyautoguiStep(code) == [type |-> "pyautogui", code |-> code]
ExecuteStep(command) == [type |-> "execute", command |-> command, shell |-> TRUE]

\* The dispatch both classes share, on the text they were given or made
StepFor(action_str, needles) ==
    IF IsMarker(action_str) THEN SleepStep("0")
    ELSE IF WaitMatch(action_str) # None THEN SleepStep(WaitMatch(action_str))
    ELSE IF \E n \in needles : ContainsLower(n, action_str) THEN PyautoguiStep(action_str)
    ELSE ExecuteStep(action_str)

\* BaseActionConverter.action_string_to_step
action_string_to_step(action) == Returns(StepFor(StripCommand(action), {"pyautogui"}))

PyNeedles == {"pyautogui", "pynputcontroller", "_smart_paste"}

\* PyautoguiActionConvertor.action_string_to_step without the strip
py_action_string_to_step_unstripped(action) ==
    IF action.body = "" /\ ~action.lead /\ ~action.trail THEN Throws("ValueError")
    ELSE Returns(StepFor(action, PyNeedles))

\* PyautoguiActionConvertor.action_string_to_step
py_action_string_to_step(action) ==
    IF StripCommand(action).body = "" THEN Throws("ValueError")
    ELSE Returns(StepFor(StripCommand(action), PyNeedles))

ActionStringToStep ==
    /\ res.op = "idle"
    /\ \E c \in Commands, which \in {"py", "base"} :
         res' = [op |-> "step", conv |-> which, command |-> c]
                    @@ (IF which = "py" THEN py_action_string_to_step(c)
                        ELSE action_string_to_step(c))
    /\ UNCHANGED <<claudeConv, qwenConv, agent, scaler, capsMgr, toggles, pyConv, oagiConv, pyHandler, ydHandler>>

NextStep == ActionStringToStep \/ Discard

SpecStep == Init /\ [][NextStep]_vars

\* The command starts with an automation primitive
HasPrimitivePrefix(c) ==
    ~c.lead /\ c.body \in {"pyautogui.click(x=100, y=200)",
                           "PynputController().type('hello')", "_smart_paste('hello')"}

IsNonEmpty(c) == c.lead \/ c.trail \/ c.body # ""

\* C16 as stated: exactly one record for every non-empty command, chosen in
\* the order DONE/FAIL (trimmed, any case), WAIT(n), automation-primitive
\* prefix, shell; code and command are the command unchanged.
C16_AsStated ==
    (res.op = "step" /\ IsNonEmpty(res.command)) =>
        /\ res.raised = "none"
        /\ res.step =
             IF IsMarker(StripCommand(res.command)) THEN SleepStep("0")
             ELSE IF WaitMatch(StripCommand(res.command)) # None
                  THEN SleepStep(WaitMatch(StripCommand(res.command)))
             ELSE IF HasPrimitivePrefix(res.command) THEN PyautoguiStep(res.command)
             ELSE ExecuteStep(res.command)

\* The command of the last call without the whitespace around it
Trimmed == Command(FALSE, res.command.body, FALSE)

\* The texts of the model that are DONE or FAIL in some mix of cases
MarkerTexts == {"DONE", "done", "FAIL", "fail", "Fail"}

\* The texts of the model of the form WAIT(n), WAIT in any case and n written
\* with digits and at most one point, each with the n it names
WaitTexts == {<<"WAIT(5)", "5.0">>, <<"wait(0.5)", "0.5">>, <<"WAIT(.5)", "0.5">>}

\* The texts of the model in which the word occurs somewhere, in any case
TextsWith(word) ==
    CASE word = "pyautogui" ->
           {"pyautogui.click(x=100, y=200)", "echo pyautogui", "import PyAutoGUI"}
      [] word = "pynputcontroller" -> {"PynputController().type('hello')"}
      [] word = "_smart_paste" -> {"_smart_paste('hello')"}

\* The words that make a text automation code for the converter of the last call
AutomationWords ==
    IF res.conv = "py" THEN {"pyautogui", "pynputcontroller", "_smart_paste"}
    ELSE {"pyautogui"}

AutomationTexts == UNION {TextsWith(w) : w \in AutomationWords}

\* The texts of the model that are none of the above and no WAIT text either
OtherTexts ==
    {"WAIT(5", "ls -la", "DONE now"}
        \cup ((TextsWith("pynputcontroller") \cup TextsWith("_smart_paste"))
                  \ AutomationTexts)

\* C16 (amended): action_string_to_step trims the command and decides on the
\* trimmed text. An empty text raises ValueError in PyautoguiActionConvertor
\* and is a shell step with an empty command in BaseActionConverter. DONE or
\* FAIL in any case gives a sleep step of 0 seconds. WAIT(n), WAIT in any case
\* and n digits with at most one point, gives a sleep step of n seconds. A
\* text in which "pyautogui" occurs anywhere, in any case (for
\* PyautoguiActionConvertor also "pynputcontroller" or "_smart_paste"), gives
\* a pyautogui step whose code is the trimmed text. Every other text that is
\* not of the form WAIT(...) gives a shell step whose command is the trimmed
\* text. No text falls under two of these cases, so the order in which the
\* code tries them shows in no result. (WAIT texts whose n has a sign or an
\* exponent are left to C30.)
C16_StepDispatch ==
    res.op = "step" =>
        /\ res.command.body = "" =>
               IF res.conv = "py" THEN res.raised = "ValueError"
               ELSE res.raised = "none" /\ res.step = ExecuteStep(Trimmed)
        /\ res.command.body \in MarkerTexts =>
               (res.raised = "none" /\ res.step = SleepStep("0"))
        /\ \A w \in WaitTexts :
               res.command.body = w[1] =>
                   (res.raised = "none" /\ res.step = SleepStep(w[2]))
        /\ res.command.body \in AutomationTexts =>
               (res.raised = "none" /\ res.step = PyautoguiStep(Trimmed))
        /\ res.command.body \in OtherTexts =>
               (res.raised = "none" /\ res.step = ExecuteStep(Trimmed))

C16_Witness ==
    /\ res.op = "step" /\ res.conv = "py"
    /\ res.command = Command(TRUE, "PynputController().type('hello')", TRUE)
    /\ res.raised = "none"
    /\ res.step = PyautoguiStep(Command(FALSE, "PynputController().type('hello')", FALSE))


(***************************************************************************)
(* Failures and no-ops in a batch conversion                               *)
(***************************************************************************)
\* An action that converts to no command without failing
IsNoOp(action, mode) ==
    action.type = "call_user" \/ (IsCapsHotkey(action) /\ mode = "session")

\* C17: convert raises the all-conversions-failed error only when the batch is
\* non-empty, no command was produced and at least one action failed; a
\* non-empty batch made solely of no-op actions (call_user, or a capslock
\* hotkey in session mode) returns an empty command list without raising.
C17_AllFailedNeedsFailure ==
    res.op = "convert" =>
        /\ res.raised = "all_failed" =>
               (res.batch # <<>> /\ res.out = <<>> /\ res.failed # <<>>)
        /\ (/\ res.batch # <<>>
            /\ \A i \in 1..Len(res.batch) : IsNoOp(res.batch[i], res.before.mode))
           => (res.raised = "none" /\ res.out = <<>>)


\* A click outside the source range [0, OAGI_COORD_SIZE] on the x axis
OutOfRangeClick == Action("click", <<"1050", "300">>, 1)

HasOutOfRange(batch) == \E i \in 1..Len(batch) : batch[i] = OutOfRangeClick

\* Strict validation off: the out-of-range click converts, clamped to the
\* last column of the target
ClampedWhenLenient ==
    (/\ res.op = "convert" /\ res.conv = "oagi" /\ ~oagiConv.strict
     /\ res.batch = <<OutOfRangeClick>>) =>
        /\ res.raised = "none"
        /\ res.out = <<Entry(Cmd("pyautogui.click",
                                 <<DEFAULT_SANDBOX_WIDTH - 1, 324>>, <<>>), TRUE)>>

\* Strict validation on: the violation ends the whole conversion with an error
AbortsWhenStrict ==
    (/\ res.op = "convert" /\ res.conv = "oagi" /\ oagiConv.strict
     /\ HasOutOfRange(res.batch)) =>
        (res.raised # "none" /\ res.out = <<>>)

\* C18: in the native dialect, with strict validation disabled a coordinate
\* outside [0, source extent] is clamped into the target and the action
\* converts; with strict validation enabled it raises the range error, and
\* that violation aborts the batch conversion immediately (no command of a
\* sibling action is returned).
C18_StrictRangeAborts == ClampedWhenLenient /\ AbortsWhenStrict


(***************************************************************************)
(* Hotkey parsing in use: handler/utils.parse_hotkey and                   *)
(* PyautoguiActionConvertor._parse_hotkey                                  *)
(***************************************************************************)
MaxKeys == 2

\* The spellings of one key the models are known to emit
AliasGroups ==
    {{"Super", "windows", " meta"}, {"page_up", "pageup"},
     {"Page_Down", "pagedown"}, {"caps", "caps_lock", "CapsLock"}}

KeyTokens == UNION AliasGroups \cup {"Ctrl", " c", "a", "ret", ""}

\* The fields of a hotkey string split at its separator
HotkeyArguments == UNION {[1..n -> KeyTokens] : n \in 1..MaxKeys}

HotkeyResult(impl, validate, arg, keys) ==
    [op |-> "hotkey", impl |-> impl, validate |-> validate, arg |-> arg,
     raised |-> IF keys = <<"!invalid">> THEN "ValueError" ELSE "none",
     keys |-> IF keys = <<"!invalid">> THEN <<>> ELSE keys]

\* parse_hotkey(hotkey_str, validate=...)
ParseHotkey ==
    /\ res.op = "idle"
    /\ \E arg \in HotkeyArguments, validate \in BOOLEAN :
         res' = HotkeyResult("utils", validate, arg, parse_hotkey(arg, validate))
    /\ UNCHANGED <<claudeConv, qwenConv, agent, scaler, capsMgr, toggles, pyConv, oagiConv, pyHandler, ydHandler>>

\* PyautoguiActionConvertor._parse_hotkey(args_str)
PyParseHotkeyCall ==
    /\ res.op = "idle"
    /\ \E arg \in HotkeyArguments :
         res' = HotkeyResult("py", TRUE, arg, PyParseHotkey(arg))
    /\ UNCHANGED <<claudeConv, qwenConv, agent, scaler, capsMgr, toggles, pyConv, oagiConv, pyHandler, ydHandler>>

NextKeys == ParseHotkey \/ PyParseHotkeyCall \/ Discard

SpecKeys == Init /\ [][NextKeys]_vars

AliasGroupOf(k) == CHOOSE g \in AliasGroups : k \in g

\* The one name a parser gives every spelling of the group of k
CanonicalName(impl, k) ==
    LET rep == CHOOSE r \in AliasGroupOf(k) : TRUE
    IN  IF impl = "py" THEN PyNormalizeKey(rep) ELSE normalize_key(rep)

\* C19: parse_hotkey with validation on either raises the invalid-key error or
\* returns only names of the closed key vocabulary, and the alias spellings
\* (super/windows/meta, page_up/pageup, page_down/pagedown,
\* caps/caps_lock/capslock) are each mapped to one canonical vocabulary name
\* instead of being rejected.
C19_HotkeyVocabulary ==
    (res.op = "hotkey" /\ res.validate) =>
        /\ res.raised = "none" =>
               \A i \in 1..Len(res.keys) : res.keys[i] \in PYAUTOGUI_VALID_KEYS
        /\ (\A i \in 1..Len(res.arg) : res.arg[i] \in UNION AliasGroups) =>
               /\ res.raised = "none"
               /\ Len(res.keys) = Len(res.arg)
               /\ \A i \in 1..Len(res.arg) :
                    /\ res.keys[i] = CanonicalName(res.impl, res.arg[i])
                    /\ res.keys[i] \in PYAUTOGUI_VALID_KEYS


(***************************************************************************)
(* Partial failure of a batch conversion                                   *)
(***************************************************************************)
\* The single conversion converter `which` makes of an action, the capslock
\* manager being m
SingleWith(which, m, action) ==
    IF which = "py" THEN PyConvertSingleAction(m, action)
    ELSE OagiConvertSingleAction([oagiConv EXCEPT !.caps_manager = m], action)

\* cmds repeated n times, the last entry marked
Expansion(cmds, n) ==
    [p \in 1..(n * Len(cmds)) |->
        Entry(cmds[((p - 1) % Len(cmds)) + 1], p = n * Len(cmds))]

\* The expansions of the actions from i on that convert, in batch order
RECURSIVE SurvivorsFrom(_, _, _, _), SurvivorsAfter(_, _, _, _)
SurvivorsFrom(which, batch, i, m) ==
    IF i > Len(batch) THEN <<>>
    ELSE SurvivorsAfter(which, batch, i, SingleWith(which, m, batch[i]))

SurvivorsAfter(which, batch, i, single) ==
    (IF single.err # "none" THEN <<>> ELSE Expansion(single.cmds, CountOf(batch[i])))
        \o SurvivorsFrom(which, batch, i + 1, single.caps)

\* Batches of up to MaxPartial actions, of which some fail to convert in
\* either converter (an invalid key, an unknown type), one fails under strict
\* validation only (a coordinate out of range), and the others convert to no,
\* one or several commands, one of them repeated
MaxPartial == 3

PartialActions ==
    {Action("hotkey", <<"ret">>, 1),
     Action("mouse_move", <<"500", "300">>, 1),
     Action("click", <<"1050", "300">>, 1),
     Action("drag", <<"100", "100", "500", "300">>, 2),
     Action("type", <<"abc">>, 1),
     Action("hotkey", <<"CapsLock">>, 1),
     Action("finish", <<>>, 1),
     Action("fail", <<>>, 1)}

PartialBatches == UNION {[1..n -> PartialActions] : n \in 0..MaxPartial}

\* PyautoguiActionConvertor()(batch) on the longer batches
PyConvertPartial ==
    /\ res.op = "idle"
    /\ \E batch \in PartialBatches : PyConverted(batch, PyCall(pyConv, batch))
    /\ UNCHANGED <<claudeConv, qwenConv, agent, scaler, capsMgr, toggles, oagiConv, pyHandler, ydHandler>>

\* OagiActionConverter()(batch) on the longer batches
OagiConvertPartial ==
    /\ res.op = "idle"
    /\ \E batch \in PartialBatches : OagiConverted(batch, OagiCall(oagiConv, batch))
    /\ UNCHANGED <<claudeConv, qwenConv, agent, scaler, capsMgr, toggles, pyConv, pyHandler, ydHandler>>

NextPartial == PyConvertPartial \/ OagiConvertPartial \/ Discard

SpecPartial == InitConv /\ [][NextPartial]_vars

\* Some action of the batch failed to convert and another yielded commands
PartlyFailed ==
    /\ res.op = "convert"
    /\ res.failed # <<>>
    /\ \E i \in 1..Len(res.yields) : res.yields[i] > 0

\* The call returned the commands of the actions that converted, in batch order
SurvivorsReturned ==
    /\ res.raised = "none"
    /\ res.out = SurvivorsFrom(res.conv, res.batch, 1, res.before)
    /\ \A k \in 1..Len(res.failed) : res.yields[res.failed[k]] = 0

\* C20 as stated: when some actions of a batch fail to convert and at least
\* one other action yields commands, convert returns normally and its result
\* is exactly the in-order concatenation of the count-expanded command lists
\* of the actions that converted.
C20_AsStated == PartlyFailed => SurvivorsReturned

\* C20 (amended): when some actions of a batch fail to convert and at least
\* one other action yields commands, convert either raises the
\* duplicate-terminal error and returns nothing, the batch then holding two
\* terminal actions, or returns normally, and its result is then exactly the
\* in-order concatenation of the count-expanded command lists of the actions
\* that converted; a failed action contributes no command.
C20_FailuresSkipped ==
    PartlyFailed =>
        \/ /\ res.raised = "duplicate"
           /\ res.out = <<>>
           /\ Cardinality(Terminals(res.batch)) >= 2
        \/ SurvivorsReturned

\* A drag repeated twice, a failing hotkey and a type action: the four
\* commands of the drag come first, the typed text last
C20_Witness ==
    /\ PartlyFailed
    /\ res.batch = <<Action("drag", <<"100", "100", "500", "300">>, 2),
                     Action("hotkey", <<"ret">>, 1),
                     Action("type", <<"abc">>, 1)>>
    /\ res.failed = <<2>>
    /\ res.raised = "none"
    /\ Len(res.out) = 5
    /\ res.out[1].cmd.fn = "pyautogui.moveTo"
    /\ res.out[4].cmd.fn = "pyautogui.dragTo"
    /\ res.out[5].cmd.fn = "pyautogui.typewrite"


(***************************************************************************)
(* BaseActionConverter.__call__ with Qwen3ActionConverter and              *)
(* ClaudeActionConverter (converters/base.py, qwen3.py, claude.py)         *)
(***************************************************************************)
\* What _convert_single_action did: the commands or the error, and the
\* converter as the call left it
DOk(cmds, conv) == [err |-> "none", cmds |-> cmds, conv |-> conv]
DErr(e, conv) == [err |-> e, cmds |-> <<>>, conv |-> conv]

\* self._last_x, self._last_y = x, y
Moved(conv, p) == [conv EXCEPT !.last_x = p.x, !.last_y = p.y]

\* BaseActionConverter.scale_coordinate
scale_coordinate(conv, c) ==
    scale(conv.coord_scaler, Fin(c[1]), Fin(c[2]), TRUE, FALSE, FALSE)

\* BaseActionConverter._get_last_or_center
get_last_or_center(conv) ==
    IF conv.last_x # NoPos /\ conv.last_y # NoPos THEN Returned(conv.last_x, conv.last_y)
    ELSE Returned(DEFAULT_SANDBOX_WIDTH \div 2, DEFAULT_SANDBOX_HEIGHT \div 2)

PointerCmd(fn, strs, p, conv) == DOk(<<Cmd(fn, <<p.x, p.y>>, strs)>>, conv)

DragPair(s, e, conv) ==
    DOk(<<Cmd("pyautogui.moveTo", <<s.x, s.y>>, <<>>),
          Cmd("pyautogui.dragTo", <<e.x, e.y>>, <<drag_duration>>)>>, Moved(conv, e))

ScrollPair(p, amount, conv) ==
    DOk(<<Cmd("pyautogui.moveTo", <<p.x, p.y>>, <<>>),
          Cmd("pyautogui.scroll", <<amount>>, <<>>)>>, conv)

KeyCmd(keys, conv) ==
    IF keys = <<>> THEN DErr("invalid key combination", conv)
    ELSE DOk(<<Cmd("pyautogui.hotkey", <<>>, keys)>>, conv)

TypewriteCmd(text, conv) ==
    IF text = Absent THEN DErr("text is required", conv)
    ELSE DOk(<<Cmd("pyautogui.typewrite", <<>>, text)>>, conv)

WaitCmd(duration, conv) ==
    DOk(<<Cmd("WAIT", <<>>, <<IF duration = None THEN wait_duration ELSE duration>>)>>, conv)

\* ---- Qwen3ActionConverter ----
Qwen3Action(action_type, coordinate, text, keys, pixels, time) ==
    [action_type |-> action_type, coordinate |-> coordinate, text |-> text,
     keys |-> keys, pixels |-> pixels, time |-> time]

HasCoordinate(action) == action.coordinate # Absent /\ Len(action.coordinate) >= 2

\* _get_coords_from_action: the point returned
QwenPoint(conv, action) ==
    IF HasCoordinate(action) THEN scale_coordinate(conv, action.coordinate)
    ELSE Returned(conv.last_x, conv.last_y)


\* A pointer command that does not store the point it was built on
QwenPointer_untracked(fn, strs, p, conv) == PointerCmd(fn, strs, p, conv)

\* _get_coords_from_action followed by the command built on its point
QwenPointer(fn, strs, p, conv) == PointerCmd(fn, strs, p, Moved(conv, p))

QwenScroll(p, pixels, conv) ==
    ScrollPair(p, IF pixels = Absent \/ pixels[1] >= 0
                  THEN DEFAULT_CONVERTER_SCROLL_AMOUNT
                  ELSE -DEFAULT_CONVERTER_SCROLL_AMOUNT, Moved(conv, p))

QwenKeys(keys) == SelectSeq([i \in 1..Len(keys) |-> normalize_key(keys[i])], IsKey)

\* Qwen3ActionConverter._convert_single_action
QwenConvertSingleAction(conv, action) ==
    LET t == Lower(action.action_type)
    IN  CASE t = "mouse_move" -> QwenPointer("pyautogui.moveTo", <<>>, QwenPoint(conv, action), conv)
          [] t = "left_click" -> QwenPointer("pyautogui.click", <<>>, QwenPoint(conv, action), conv)
          [] t = "double_click" ->
               QwenPointer("pyautogui.doubleClick", <<>>, QwenPoint(conv, action), conv)
          [] t = "triple_click" ->
               QwenPointer("pyautogui.tripleClick", <<>>, QwenPoint(conv, action), conv)
          [] t = "right_click" ->
               QwenPointer("pyautogui.rightClick", <<>>, QwenPoint(conv, action), conv)
          [] t = "middle_click" ->
               QwenPointer("pyautogui.click", <<"middle">>, QwenPoint(conv, action), conv)
          [] t = "left_click_drag" ->
               IF ~HasCoordinate(action) THEN DErr("coordinate is required", conv)
               ELSE DragPair(Returned(conv.last_x, conv.last_y),
                             scale_coordinate(conv, action.coordinate), conv)
          [] t = "type" -> TypewriteCmd(action.text, conv)
          [] t = "key" ->
               IF action.keys = Absent
               THEN DErr("keys array is required", conv)
               ELSE KeyCmd(QwenKeys(action.keys), conv)
          [] t \in {"scroll", "hscroll"} ->
               QwenScroll(QwenPoint(conv, action), action.pixels, conv)
          [] t = "wait" -> WaitCmd(action.time, conv)
          [] t = "terminate" -> DOk(<<Cmd("DONE", <<>>, <<>>)>>, conv)
          [] t = "answer" -> DOk(<<>>, conv)
          [] OTHER -> DOk(<<>>, conv)

\* ---- ClaudeActionConverter ----
ClaudeAction(action_type, coordinate, text, scroll_direction, scroll_amount, duration,
             start_coordinate) ==
    [action_type |-> action_type, coordinate |-> coordinate, text |-> text,
     scroll_direction |-> scroll_direction, scroll_amount |-> scroll_amount,
     duration |-> duration, start_coordinate |-> start_coordinate]

\* _get_coords_or_last: the point returned
ClaudePoint(conv, action) ==
    IF action.coordinate # Absent THEN scale_coordinate(conv, action.coordinate)
    ELSE get_last_or_center(conv)

\* _get_coords_or_last followed by the command built on its point: the cursor
\* is stored only when the action has a coordinate
ClaudePointer(fn, strs, p, conv, action) ==
    PointerCmd(fn, strs, p, IF action.coordinate # Absent THEN Moved(conv, p) ELSE conv)

ClaudeDragStart(conv, action) ==
    IF action.start_coordinate # Absent THEN scale_coordinate(conv, action.start_coordinate)
    ELSE get_last_or_center(conv)

\* The scroll branch once the coordinate is scaled: direction is
\* (scroll_direction or "down").strip().lower(), amount is scroll_amount or,
\* where that is None, config.scroll_amount
ClaudeScroll(p, direction, amount, conv) ==
    IF direction = "up" THEN ScrollPair(p, amount, conv)
    ELSE IF direction = "down" THEN ScrollPair(p, -amount, conv)
    ELSE DErr("invalid scroll direction", conv)

\* _parse_claude_hotkey on the fields between the separators
parse_claude_hotkey(text) ==
    LET kept == SelectSeq(text, LAMBDA k : StripLower(k) # "")
    IN  [i \in 1..Len(kept) |-> normalize_key(kept[i])]

\* ClaudeActionConverter._convert_single_action
ClaudeConvertSingleAction(conv, action) ==
    LET t == Lower(action.action_type)
    IN  CASE t = "screenshot" -> DOk(<<>>, conv)
          [] t = "mouse_move" ->
               IF action.coordinate = Absent THEN DErr("coordinate is required", conv)
               ELSE ClaudePointer("pyautogui.moveTo", <<>>, ClaudePoint(conv, action),
                                  conv, action)
          [] t = "left_click" ->
               ClaudePointer("pyautogui.click", <<>>, ClaudePoint(conv, action), conv, action)
          [] t = "double_click" ->
               ClaudePointer("pyautogui.doubleClick", <<>>, ClaudePoint(conv, action),
                             conv, action)
          [] t = "triple_click" ->
               ClaudePointer("pyautogui.tripleClick", <<>>, ClaudePoint(conv, action),
                             conv, action)
          [] t = "right_click" ->
               ClaudePointer("pyautogui.rightClick", <<>>, ClaudePoint(conv, action),
                             conv, action)
          [] t = "middle_click" ->
               ClaudePointer("pyautogui.click", <<"middle">>, ClaudePoint(conv, action),
                             conv, action)
          [] t = "left_click_drag" ->
               IF action.coordinate = Absent THEN DErr("coordinate is required", conv)
               ELSE DragPair(ClaudeDragStart(conv, action),
                             scale_coordinate(conv, action.coordinate), conv)
          [] t = "type" -> TypewriteCmd(action.text, conv)
          [] t = "key" ->
               IF action.text = Absent THEN DErr("text is required", conv)
               ELSE KeyCmd(parse_claude_hotkey(action.text), conv)
          [] t = "scroll" ->
               IF action.coordinate = Absent THEN DErr("coordinate is required", conv)
               ELSE ClaudeScroll(scale_coordinate(conv, action.coordinate),
                                 IF action.scroll_direction \in {None, ""} THEN "down"
                                 ELSE StripLower(action.scroll_direction),
                                 IF action.scroll_amount = Absent
                                 THEN DEFAULT_CONVERTER_SCROLL_AMOUNT
                                 ELSE action.scroll_amount[1], conv)
          [] t = "wait" -> WaitCmd(action.duration, conv)
          [] t = "cursor_position" -> DOk(<<>>, conv)
          [] OTHER -> DOk(<<>>, conv)

\* ---- BaseActionConverter.__call__ ----
DialectSingle(which, conv, action) ==
    IF which = "qwen3" THEN QwenConvertSingleAction(conv, action)
    ELSE ClaudeConvertSingleAction(conv, action)

BaseStart(conv) ==
    [conv |-> conv, converted |-> <<>>, failed |-> <<>>, skipped |-> <<>>, cursors |-> <<>>]

\* One iteration of the loop: r is what _convert_single_action did
BaseStep(st, i, r) ==
    [conv |-> r.conv,
     converted |-> st.converted \o r.cmds,
     failed |-> IF r.err # "none" THEN Append(st.failed, i) ELSE st.failed,
     skipped |-> IF r.err = "none" /\ r.cmds = <<>> THEN Append(st.skipped, i)
                 ELSE st.skipped,
     cursors |-> Append(st.cursors, <<r.conv.last_x, r.conv.last_y>>)]

BaseResult(batch, st) ==
    [raised |-> IF st.converted = <<>> /\ batch # <<>> /\ st.failed # <<>>
                THEN "all_failed" ELSE "none",
     out |-> IF st.converted = <<>> /\ batch # <<>> /\ st.failed # <<>>
             THEN <<>> ELSE st.converted,
     failed |-> st.failed, skipped |-> st.skipped, cursors |-> st.cursors,
     after |-> st.conv]

RECURSIVE BaseLoop(_, _, _, _)
BaseLoop(which, batch, i, st) ==
    IF i > Len(batch) THEN BaseResult(batch, st)
    ELSE BaseLoop(which, batch, i + 1,
                  BaseStep(st, i, DialectSingle(which, st.conv, batch[i])))

\* BaseActionConverter.__call__(actions)
BaseCall(which, conv, batch) == BaseLoop(which, batch, 1, BaseStart(conv))


(***************************************************************************)
(* The dialect converters in use                                           *)
(***************************************************************************)
QwenPointerTypes ==
    {"mouse_move", "left_click", "double_click", "triple_click", "right_click",
     "middle_click", "scroll", "hscroll", "left_click_drag"}

Qwen3Actions ==
    {Qwen3Action(t, c, Absent, Absent, Absent, None) :
        t \in {"mouse_move", "left_click", "left_click_drag"},
        c \in {Absent, <<500, 300>>, <<100, 200>>}}
    \cup {Qwen3Action("scroll", c, Absent, Absent, p, None) :
        c \in {Absent, <<999, 0>>}, p \in {Absent, <<-3>>}}
    \cup {Qwen3Action("wait", Absent, Absent, Absent, Absent, t) :
        t \in {None, "5", "2.5", "-1.0", "1e-05"}}
    \cup {Qwen3Action("Right_Click", <<7>>, Absent, Absent, Absent, None),
          Qwen3Action("type", Absent, <<"abc">>, Absent, Absent, None),
          Qwen3Action("type", Absent, Absent, Absent, Absent, None),
          Qwen3Action("key", Absent, Absent, <<"Ctrl", " c">>, Absent, None),
          Qwen3Action("key", Absent, Absent, <<"">>, Absent, None),
          Qwen3Action("terminate", Absent, Absent, Absent, Absent, None),
          Qwen3Action("answer", Absent, <<"42">>, Absent, Absent, None),
          Qwen3Action("hover", <<500, 300>>, Absent, Absent, Absent, None)}

ClaudeActions ==
    {ClaudeAction(t, c, Absent, None, Absent, None, Absent) :
        t \in {"mouse_move", "left_click"}, c \in {Absent, <<512, 384>>}}
    \cup {ClaudeAction("left_click_drag", c, Absent, None, Absent, None, s) :
        c \in {Absent, <<512, 384>>}, s \in {Absent, <<100, 100>>}}
    \cup {ClaudeAction("scroll", c, Absent, d, Absent, None, Absent) :
        c \in {Absent, <<200, 300>>}, d \in {None, "UP", "sideways"}}
    \cup {ClaudeAction("scroll", <<200, 300>>, Absent, d, <<5>>, None, Absent) :
        d \in {None, "UP"}}
    \cup {ClaudeAction("scroll", <<200, 300>>, Absent, "up", <<0>>, None, Absent),
          ClaudeAction("scroll", <<200, 300>>, Absent, "", Absent, None, Absent)}
    \cup {ClaudeAction("wait", Absent, Absent, None, Absent, d, Absent) : d \in {None, "500"}}
    \cup {ClaudeAction("type", Absent, <<"abc">>, None, Absent, None, Absent),
          ClaudeAction("key", Absent, <<"Ctrl", " c">>, None, Absent, None, Absent),
          ClaudeAction("key", Absent, <<"">>, None, Absent, None, Absent),
          ClaudeAction("screenshot", Absent, Absent, None, Absent, None, Absent),
          ClaudeAction("cursor_position", Absent, Absent, None, Absent, None, Absent),
          ClaudeAction("hover", <<512, 384>>, Absent, None, Absent, None, Absent)}

DialectResult(which, batch, before, r) ==
    [op |-> "dialect", conv |-> which, batch |-> batch, before |-> before] @@ r

\* Qwen3ActionConverter()(batch)
QwenConverted(batch, r) ==
    /\ qwenConv' = r.after
    /\ res' = DialectResult("qwen3", batch, qwenConv, r)

QwenConvert ==
    /\ res.op = "idle"
    /\ \E batch \in UNION {[1..n -> Qwen3Actions] : n \in 0..MaxBatch} :
         QwenConverted(batch, BaseCall("qwen3", qwenConv, batch))
    /\ UNCHANGED <<scaler, capsMgr, toggles, pyConv, oagiConv, pyHandler, ydHandler,
                   claudeConv, agent>>

\* ClaudeActionConverter()(batch)
ClaudeConverted(batch, r) ==
    /\ claudeConv' = r.after
    /\ res' = DialectResult("claude", batch, claudeConv, r)

ClaudeConvert ==
    /\ res.op = "idle"
    /\ \E batch \in UNION {[1..n -> ClaudeActions] : n \in 0..MaxBatch} :
         ClaudeConverted(batch, BaseCall("claude", claudeConv, batch))
    /\ UNCHANGED <<scaler, capsMgr, toggles, pyConv, oagiConv, pyHandler, ydHandler,
                   qwenConv, agent>>

\* Points the caller reports as the real cursor position
CursorUpdates == {<<33, 44>>}

\* Qwen3ActionConverter.update_cursor(x, y)
QwenUpdateCursor ==
    /\ res.op = "idle"
    /\ \E p \in CursorUpdates : qwenConv' = [qwenConv EXCEPT !.last_x = p[1], !.last_y = p[2]]
    /\ UNCHANGED <<res, scaler, capsMgr, toggles, pyConv, oagiConv, pyHandler, ydHandler,
                   claudeConv, agent>>

NextDialects == QwenConvert \/ QwenUpdateCursor \/ ClaudeConvert \/ Discard

SpecDialects == Init /\ [][NextDialects]_vars


\* The action types the converter of a dialect has a branch for
RecognizedTypes(which) ==
    IF which = "qwen3"
    THEN QwenPointerTypes \cup {"type", "key", "wait", "terminate", "answer"}
    ELSE {"screenshot", "mouse_move", "left_click", "double_click", "triple_click",
          "right_click", "middle_click", "left_click_drag", "type", "key", "scroll",
          "wait", "cursor_position"}

IsUnknown(which, action) == Lower(action.action_type) \notin RecognizedTypes(which)

InSeq(x, seq) == \E k \in 1..Len(seq) : seq[k] = x

\* C21: in every converter an action whose type is not recognized is surfaced
\* as a per-action failure (recorded with its cause, and raising the aggregate
\* error when nothing else in the batch converts); it is never silently
\* treated as a no-op.
C21_UnknownTypeFails ==
    res.op = "dialect" =>
        /\ \A i \in 1..Len(res.batch) :
             IsUnknown(res.conv, res.batch[i]) =>
                 (InSeq(i, res.failed) /\ ~InSeq(i, res.skipped))
        /\ (/\ res.batch # <<>>
            /\ \A i \in 1..Len(res.batch) : IsUnknown(res.conv, res.batch[i]))
           => res.raised = "all_failed"


\* The Qwen3 actions that carry a coordinate: a pointer, scroll or drag action
\* whose coordinate has both components
CarriesCoordinate(action) ==
    Lower(action.action_type) \in QwenPointerTypes /\ HasCoordinate(action)

Centre == <<DEFAULT_SANDBOX_WIDTH \div 2, DEFAULT_SANDBOX_HEIGHT \div 2>>

PointOf(p) == <<p.x, p.y>>

CursorOf(conv) == <<conv.last_x, conv.last_y>>

\* The cursor before action i of the last call
CursorBefore(i) == IF i = 1 THEN CursorOf(res.before) ELSE res.cursors[i - 1]

\* The cursor the claim gives after action i
TrackedAfter(i) ==
    IF CarriesCoordinate(res.batch[i])
    THEN PointOf(scale_coordinate(res.before, res.batch[i].coordinate))
    ELSE CursorBefore(i)

QwenCoordinates == {a.coordinate : a \in {b \in Qwen3Actions : CarriesCoordinate(b)}}

\* C22: in the Qwen3 converter the tracked cursor starts at the target centre
\* (width // 2, height // 2) and after any sequence of converted actions equals
\* the scaled coordinates of the most recent action that carried a coordinate;
\* a pointer action without a coordinate is emitted at the tracked cursor and
\* leaves it unchanged.  Between calls only update_cursor moves the cursor.
C22_QwenCursorTracking ==
    /\ CursorOf(qwenConv) \in
           {Centre} \cup CursorUpdates
           \cup {PointOf(scale_coordinate(qwenConv, c)) : c \in QwenCoordinates}
    /\ (res.op = "dialect" /\ res.conv = "qwen3") =>
        /\ \A i \in 1..Len(res.batch) : res.cursors[i] = TrackedAfter(i)
        /\ CursorOf(res.after) =
               IF res.batch = <<>> THEN CursorOf(res.before)
               ELSE res.cursors[Len(res.batch)]
        /\ (/\ Len(res.batch) = 1
            /\ Lower(res.batch[1].action_type) \in QwenPointerTypes \ {"left_click_drag"}
            /\ ~HasCoordinate(res.batch[1]))
           => (res.raised = "none" /\ res.out[1].nums = CursorOf(res.before))

\* After an earlier call left the cursor elsewhere: a click with a coordinate,
\* then a scroll without one, emitted where the click left the cursor
C22_Witness ==
    /\ res.op = "dialect" /\ res.conv = "qwen3"
    /\ Len(res.batch) = 2
    /\ res.batch[1].action_type = "left_click" /\ res.batch[1].coordinate = <<500, 300>>
    /\ res.batch[2].action_type = "scroll" /\ res.batch[2].coordinate = Absent
    /\ res.out[1].nums = <<961, 324>>
    /\ res.out[2].nums = <<961, 324>>
    /\ CursorOf(res.after) = <<961, 324>>
    /\ CursorOf(res.before) = <<192, 216>>


\* The commands that put the pointer somewhere
PointerFns ==
    {"pyautogui.moveTo", "pyautogui.click", "pyautogui.doubleClick",
     "pyautogui.tripleClick", "pyautogui.rightClick", "pyautogui.dragTo"}

\* Where the first n commands of the last call leave the pointer, given where
\* it was before the call
RECURSIVE PointerAfter(_, _)
PointerAfter(n, start) ==
    IF n = 0 THEN start
    ELSE IF res.out[n].fn \in PointerFns THEN res.out[n].nums
    ELSE PointerAfter(n - 1, start)

\* The last action of the batch is a drag without start_coordinate that converted
EndsWithBareDrag ==
    /\ res.op = "dialect" /\ res.conv = "claude" /\ res.raised = "none"
    /\ res.batch # <<>>
    /\ res.batch[Len(res.batch)].action_type = "left_click_drag"
    /\ res.batch[Len(res.batch)].start_coordinate = Absent
    /\ res.batch[Len(res.batch)].coordinate # Absent

\* C23: in the Claude converter a left_click_drag without start_coordinate
\* starts its moveTo at the last known cursor, i.e. where the previously
\* converted actions left the pointer (the target of the latest
\* moveTo/click/dragTo command emitted, a scroll's moveTo included), or at the
\* target centre when no earlier action positioned the pointer.
C23_DragStartsAtPointer ==
    EndsWithBareDrag =>
        /\ res.out[Len(res.out) - 1].fn = "pyautogui.moveTo"
        /\ res.out[Len(res.out) - 1].nums =
               PointerAfter(Len(res.out) - 2,
                            IF CursorOf(res.before) = <<NoPos, NoPos>> THEN Centre
                            ELSE CursorOf(res.before))


\* The last call parsed one tagged fragment name(fields) into one Action
TaggedSingle(name) ==
    /\ res.op = "parse" /\ res.mode = "legacy" /\ res.raised = "none"
    /\ res.raw.has_action_block
    /\ Len(res.raw.action_texts) = 1
    /\ res.raw.action_texts[1].matches
    /\ Lower(res.raw.action_texts[1].name) = name
    /\ Len(res.step.actions) = 1

\* C24: in the tagged grammar scroll(x, y, direction, c) yields the argument
\* "x,y,direction" and the count c, and hotkey(keys, c) yields the keys and the
\* count c when c is an integer; when the last comma-separated field of a
\* hotkey is not an integer (a combination written with commas, e.g.
\* hotkey(alt, tab)), the count is 1 and the whole argument, last field
\* included, is kept.
C24_TaggedCounts ==
    LET fields == res.raw.action_texts[1].fields
        n == Len(fields)
        a == res.step.actions[1]
    IN  /\ TaggedSingle("scroll") /\ n = 4 /\ IntOf(fields[4]).ok =>
               a.argument = SubSeq(fields, 1, 3) /\ a.count = IntOf(fields[4]).v
        /\ TaggedSingle("hotkey") /\ n >= 2 /\ IntOf(fields[n]).ok =>
               a.argument = SubSeq(fields, 1, n - 1) /\ a.count = IntOf(fields[n]).v
        /\ TaggedSingle("hotkey") /\ n >= 2 /\ ~IntOf(fields[n]).ok =>
               a.argument = fields /\ a.count = 1


(***************************************************************************)
(* DefaultAgent / AsyncDefaultAgent in use (agent/default.py)              *)
(***************************************************************************)
MaxSteps == 3       \* largest step budget an agent is constructed with

\* The Steps task.step hands back: with and without actions, stop set or not
AgentSteps ==
    {Step("", actions, stop) :
        actions \in {<<>>, <<Action("click", <<"500", "300">>, 1)>>,
                     <<Action("type", <<"abc">>, 1), Action("finish", <<>>, 1)>>},
        stop \in BOOLEAN}

\* execute() entered: task.init_task(instruction, max_steps) done, loop not begun
Executing(a, flavour) ==
    [pc |-> "for", max_steps |-> a.max_steps, flavour |-> flavour, i |-> 0,
     step |-> Step("", <<>>, FALSE), taken |-> <<>>, handled |-> <<>>,
     result |-> None]

\* A loop head that admits one iteration more than the budget
range_next_inclusive(a) ==
    IF a.i <= a.max_steps THEN [a EXCEPT !.pc = "capture", !.i = a.i + 1]
    ELSE [a EXCEPT !.pc = "returned", !.result = "False"]

\* for i in range(self.max_steps): the next iteration, or the return False
\* after the loop
range_next(a) ==
    IF a.i < a.max_steps THEN [a EXCEPT !.pc = "capture", !.i = a.i + 1]
    ELSE [a EXCEPT !.pc = "returned", !.result = "False"]

\* An exception of the callee leaves execute() through the loop
Propagates(a) == [a EXCEPT !.pc = "raised"]

\* step = self.task.step(image, ...); if step.actions: ...
GotStep(a, step) ==
    [a EXCEPT !.step = step, !.taken = Append(a.taken, step),
              !.pc = IF step.actions # <<>> THEN "handle" ELSE "check"]

\* action_handler(step.actions)
Handled(a) ==
    [a EXCEPT !.handled = Append(a.handled, [i |-> a.i, actions |-> a.step.actions])]

\* if step.stop: return True
stop_check(a) ==
    IF a.step.stop THEN [a EXCEPT !.pc = "returned", !.result = "True"]
    ELSE [a EXCEPT !.pc = "for"]

AgentOnly ==
    UNCHANGED <<scaler, capsMgr, toggles, pyConv, oagiConv, pyHandler, ydHandler, res,
                claudeConv, qwenConv>>

\* agent.execute(instruction, action_handler, image_provider), sync or async
Execute ==
    /\ agent.pc = "idle"
    /\ \E flavour \in {"sync", "async"} : agent' = Executing(agent, flavour)
    /\ AgentOnly

ForNext ==
    /\ agent.pc = "for"
    /\ agent' = range_next(agent)
    /\ AgentOnly

\* image = image_provider(): returns or raises
Capture ==
    /\ agent.pc = "capture"
    /\ \E ok \in BOOLEAN :
         agent' = IF ok THEN [agent EXCEPT !.pc = "step"] ELSE Propagates(agent)
    /\ AgentOnly

\* self.task.step(...): returns a Step or raises
TaskStep ==
    /\ agent.pc = "step"
    /\ \/ \E step \in AgentSteps : agent' = GotStep(agent, step)
       \/ agent' = Propagates(agent)
    /\ AgentOnly

\* The handler is called with the step's actions: it returns or raises
Handle ==
    /\ agent.pc = "handle"
    /\ \E ok \in BOOLEAN :
         agent' = IF ok THEN [Handled(agent) EXCEPT !.pc = "check"]
                  ELSE Propagates(Handled(agent))
    /\ AgentOnly

CheckStop ==
    /\ agent.pc = "check"
    /\ agent' = stop_check(agent)
    /\ AgentOnly

\* The statements of a running execute()
AgentRun == ForNext \/ Capture \/ TaskStep \/ Handle \/ CheckStop

NextAgent == Execute \/ AgentRun

\* Agents constructed with every step budget up to MaxSteps
InitAgent ==
    /\ ConstructTools("session", "session", "session", FALSE, "session", "session")
    /\ \E n \in 0..MaxSteps : agent = NewDefaultAgent(n)

SpecAgent == InitAgent /\ [][NextAgent]_vars

\* execute() runs to its end: each statement is executed once it is reached,
\* and each call it makes (image provider, task.step, handler) returns or raises
SpecAgentFair == SpecAgent /\ WF_vars(AgentRun)


AgentRunning == agent.pc \notin {"idle", "returned", "raised"}
AgentEnded == agent.pc \in {"returned", "raised"}

\* The handler calls owed for the first n steps taken: one for each step with
\* a non-empty action list, in order
RECURSIVE HandlerCallsFor(_, _)
HandlerCallsFor(taken, n) ==
    IF n = 0 THEN <<>>
    ELSE IF taken[n].actions # <<>>
         THEN Append(HandlerCallsFor(taken, n - 1), [i |-> n, actions |-> taken[n].actions])
         ELSE HandlerCallsFor(taken, n - 1)

\* What holds at every point of a call of execute()
AgentStepsBounded ==
    agent.pc # "idle" =>
        /\ Len(agent.taken) <= agent.max_steps
        /\ \A k \in 1..(Len(agent.taken) - 1) : ~agent.taken[k].stop
        /\ agent.handled =
               HandlerCallsFor(agent.taken,
                               IF agent.pc = "handle" THEN Len(agent.taken) - 1
                               ELSE Len(agent.taken))
        /\ agent.pc = "returned" =>
               /\ agent.result = "True" <=>
                      (agent.taken # <<>> /\ agent.taken[Len(agent.taken)].stop)
               /\ agent.result = "False" <=>
                      /\ Len(agent.taken) = agent.max_steps
                      /\ \A k \in 1..Len(agent.taken) : ~agent.taken[k].stop

\* C26: DefaultAgent.execute (sync and async) takes at most max_steps steps and
\* always terminates; it returns True as soon as a step reports stop, after
\* passing that step's actions to the action handler, and takes no further
\* step; it returns False iff max_steps steps all reported stop = false; the
\* handler is called exactly once for each step taken that has a non-empty
\* action list.
C26_ExecuteTerminates == []AgentStepsBounded /\ (AgentRunning ~> AgentEnded)

\* A call with a budget of three steps that returned True at its second step,
\* the handler called for the stopping step's actions
C26_Witness ==
    /\ agent.pc = "returned" /\ agent.result = "True"
    /\ agent.max_steps = 3 /\ Len(agent.taken) = 2
    /\ agent.handled # <<>>
    /\ agent.handled[Len(agent.handled)].i = 2


\* The positions of the returned list that hold a terminal marker
TerminalMarkers(out) == {p \in 1..Len(out) : out[p].cmd.fn \in {"DONE", "FAIL"}}

\* C27: whenever a native-dialect convert call returns normally, the returned
\* command list contains at most one terminal marker (DONE or FAIL), for every
\* input batch, including batches whose terminal action has count > 1.
C27_OneTerminalMarker ==
    res.op = "convert" /\ res.raised = "none" =>
        Cardinality(TerminalMarkers(res.out)) <= 1


\* C28: if a convert call raises (the duplicate-terminal error or the aggregate
\* all-conversions-failed error), the converter's capslock flag and last-known
\* cursor are the same as before the call: a rejected batch, even one whose
\* earlier actions included a session-mode capslock hotkey, has no lasting
\* effect on session state.
C28_RejectedBatchLeavesState ==
    res.op = "convert" /\ res.raised # "none" =>
        /\ res.after.caps_enabled = res.before.caps_enabled
        /\ res.conv = "oagi" => oagiConv.caps_manager.caps_enabled = res.before.caps_enabled
        /\ res.conv = "py" => pyConv.caps_manager.caps_enabled = res.before.caps_enabled
        /\ oagiConv.last_x = None /\ oagiConv.last_y = None


(***************************************************************************)
(* The local handler and the native converters fed the same batches        *)
(***************************************************************************)
SharedActions ==
    {Action("hotkey", <<"CapsLock">>, c) : c \in 1..2}
    \cup {Action("type", <<"abc">>, 1),
          Action("click", <<"500", "300">>, 1),
          Action("finish", <<>>, 1),
          Action("fail", <<>>, 1)}

SharedBatches == UNION {[1..n -> SharedActions] : n \in 0..MaxBatch}

\* The commands that type a text
TypingFns == {"pyautogui.typewrite", "PynputController().type", "_smart_paste"}

\* The texts typed, in order
RECURSIVE TypedTexts(_, _)
TypedTexts(cmds, n) ==
    IF n = 0 THEN <<>>
    ELSE IF cmds[n].fn \in TypingFns
         THEN Append(TypedTexts(cmds, n - 1), cmds[n].strs)
         ELSE TypedTexts(cmds, n - 1)

CmdsOf(out) == [p \in 1..Len(out) |-> out[p].cmd]

\* One side of the comparison: how the call ended, the flag it left, what it typed
Side(raised, caps, cmds) ==
    [raised |-> raised, caps_enabled |-> caps.caps_enabled,
     typed |-> TypedTexts(cmds, Len(cmds))]

SameBatched(batch, h, p, o) ==
    /\ pyHandler' = [pyHandler EXCEPT !.caps_manager = h.caps]
    /\ pyConv' = [pyConv EXCEPT !.caps_manager = p.caps]
    /\ oagiConv' = [oagiConv EXCEPT !.caps_manager = o.caps]
    /\ res' = [op |-> "same", batch |-> batch,
               handler |-> Side(h.raised, h.caps, h.calls),
               py |-> Side(p.raised, p.caps, CmdsOf(p.out)),
               oagi |-> Side(o.raised, o.caps, CmdsOf(o.out))]

\* One batch handed to PyautoguiActionHandler, PyautoguiActionConvertor and
\* OagiActionConverter alike
SameBatch ==
    /\ res.op = "idle"
    /\ \E batch \in SharedBatches :
         SameBatched(batch, HandlerCall("py", pyHandler, batch),
                     PyCall(pyConv, batch), OagiCall(oagiConv, batch))
    /\ UNCHANGED <<claudeConv, qwenConv, agent, scaler, capsMgr, toggles, ydHandler>>

NextSame == SameBatch \/ Discard

SpecSame == Init /\ [][NextSame]_vars

\* C29: for the same sequence of native Action batches in session capslock
\* mode, the local handler (PyautoguiActionHandler) and the native converter
\* (PyautoguiActionConvertor / OagiActionConverter) end with the same capslock
\* flag and apply the same upper-casing to every typed text, including when a
\* capslock hotkey has count n > 1 and when a batch contains finish or fail.
C29_HandlerMatchesConverter ==
    res.op = "same" =>
        /\ res.py.caps_enabled = res.handler.caps_enabled
        /\ res.oagi.caps_enabled = res.handler.caps_enabled
        /\ res.py.raised = "none" => res.py.typed = res.handler.typed
        /\ res.oagi.raised = "none" => res.oagi.typed = res.handler.typed


(***************************************************************************)
(* Converted commands handed on to action_string_to_step                   *)
(***************************************************************************)
\* The command string of a converted command: the markers and WAIT(seconds)
\* in full, any other call by its function with the arguments left out
CommandText(cmd) ==
    Command(FALSE,
            CASE cmd.fn \in {"DONE", "FAIL"} -> cmd.fn
              [] cmd.fn = "WAIT" -> "WAIT(" \o cmd.strs[1] \o ")"
              [] OTHER -> CallText(cmd.fn),
            FALSE)

RuntimeActions ==
    {Action("wait", a, 1) : a \in {<<>>, <<"0">>, <<"2">>, <<"-10">>, <<"abc">>}}
    \cup {Action("click", <<"500", "300">>, 1),
          Action("type", <<"abc">>, 1),
          Action("hotkey", <<"Ctrl", " c">>, 1),
          Action("finish", <<>>, 1),
          Action("fail", <<>>, 1)}

RuntimeBatches == UNION {[1..n -> RuntimeActions] : n \in 0..MaxBatch}

\* Each returned command through the converter's own action_string_to_step
StepsOf(which, cmds) ==
    [p \in 1..Len(cmds) |->
        IF which = "py" THEN py_action_string_to_step(CommandText(cmds[p]))
        ELSE action_string_to_step(CommandText(cmds[p]))]

StepsResult(which, raised, cmds) ==
    [op |-> "steps", conv |-> which, raised |-> raised, out |-> cmds,
     steps |-> StepsOf(which, cmds)]

PyToSteps(r) ==
    /\ pyConv' = [pyConv EXCEPT !.caps_manager = r.caps]
    /\ res' = StepsResult("py", r.raised, CmdsOf(r.out))
    /\ UNCHANGED <<oagiConv, qwenConv, claudeConv>>

OagiToSteps(r) ==
    /\ oagiConv' = [oagiConv EXCEPT !.caps_manager = r.caps]
    /\ res' = StepsResult("oagi", r.raised, CmdsOf(r.out))
    /\ UNCHANGED <<pyConv, qwenConv, claudeConv>>

QwenToSteps(r) ==
    /\ qwenConv' = r.after
    /\ res' = StepsResult("qwen3", r.raised, r.out)
    /\ UNCHANGED <<pyConv, oagiConv, claudeConv>>

ClaudeToSteps(r) ==
    /\ claudeConv' = r.after
    /\ res' = StepsResult("claude", r.raised, r.out)
    /\ UNCHANGED <<pyConv, oagiConv, qwenConv>>

\* A batch converted, each command of the result turned into a runtime step
ConvertToSteps ==
    /\ res.op = "idle"
    /\ \/ \E batch \in RuntimeBatches : PyToSteps(PyCall(pyConv, batch))
       \/ \E batch \in RuntimeBatches : OagiToSteps(OagiCall(oagiConv, batch))
       \/ \E batch \in UNION {[1..n -> Qwen3Actions] : n \in 0..MaxBatch} :
            QwenToSteps(BaseCall("qwen3", qwenConv, batch))
       \/ \E batch \in UNION {[1..n -> ClaudeActions] : n \in 0..MaxBatch} :
            ClaudeToSteps(BaseCall("claude", claudeConv, batch))
    /\ UNCHANGED <<agent, scaler, capsMgr, toggles, pyHandler, ydHandler>>

NextRuntime == ConvertToSteps \/ Discard

SpecRuntime == Init /\ [][NextRuntime]_vars

\* C30: every command string that a converter returns from convert is mapped
\* by that converter's action_string_to_step to a sleep or automation step,
\* never to a shell-execute step; in particular the WAIT(...) command of every
\* wait action, for any numeric duration (negative, exponent-formatted or
\* integer values included), becomes a sleep step.
C30_NeverShellStep ==
    res.op = "steps" /\ res.raised = "none" =>
        \A p \in 1..Len(res.steps) :
            /\ res.steps[p].raised = "none"
            /\ res.steps[p].step.type \in {"sleep", "pyautogui"}
            /\ res.out[p].fn = "WAIT" => res.steps[p].step.type = "sleep"

(***************************************************************************)
(* The whole program: every component in use                               *)
(***************************************************************************)
Next == NextScaler \/ NextCaps \/ NextConv \/ NextHandler \/ NextParse \/ NextSplit \/ NextStep \/ NextKeys
            \/ NextDialects \/ NextAgent \/ NextSame \/ NextRuntime

Spec == Init /\ [][Next]_vars
====
